---- MODULE Spec2Model ----
(***************************************************************************)
(* custom-install: the cifinish.bin journal (load_cifinish, save_cifinish) *)
(* and the install orchestrator (CustomInstall.prepare_titles, start,      *)
(* copy_with_progress, get_sd_path) of src/custominstall.py.               *)
(*                                                                         *)
(* Bytes are naturals 0..255, byte strings are sequences of bytes.  A      *)
(* 64-bit title ID is kept as its 8 bytes, most significant first (the 16  *)
(* hex characters of tmd.title_id read two by two): int.to_bytes(8,        *)
(* 'little') is the reversal of that tuple, int.from_bytes(.., 'little')   *)
(* the reversal back, and integer order is the lexicographic order of the  *)
(* tuple.                                                                  *)
(***************************************************************************)
EXTENDS Integers, Sequences, FiniteSets, TLC

----------------------------------------------------------------------------
(* Program constants *)

\* custominstall.py:57
CIFINISH_VERSION == 3
\* custominstall.py:54
READ_SIZE == 2097152
\* custominstall.py:51
TITLE_ALIGN_SIZE == 32768

(* Bounds of the model *)
MaxBatch == 2

----------------------------------------------------------------------------
(* Byte-string helpers *)

Min(a, b) == IF a < b THEN a ELSE b
Max(a, b) == IF a > b THEN a ELSE b

Rep(x, n) == [i \in 1..n |-> x]

Reverse(s) == [i \in 1..Len(s) |-> s[Len(s) + 1 - i]]

\* Python slice s[a:b] on a byte string (0-based, end exclusive, clipped)
PySlice(s, a, b) == IF a >= Min(b, Len(s)) THEN <<>> ELSE SubSeq(s, a + 1, Min(b, Len(s)))

\* Python s[i] on a byte string already known to be long enough
PyAt(s, i) == s[i + 1]

\* int.to_bytes(n, 'little')
RECURSIVE ToLE(_, _)
ToLE(v, n) == IF n = 0 THEN <<>> ELSE <<v % 256>> \o ToLE(v \div 256, n - 1)

\* int.from_bytes(b, 'little')
RECURSIVE FromLE(_)
FromLE(b) == IF Len(b) = 0 THEN 0 ELSE b[1] + 256 * FromLE(Tail(b))

RECURSIVE Concat(_)
Concat(ss) == IF Len(ss) = 0 THEN <<>> ELSE Head(ss) \o Concat(Tail(ss))

\* b'CIFINISH'
MAGIC_CIFINISH == <<67, 73, 70, 73, 78, 73, 83, 72>>
\* b'TITLE\0'
MAGIC_TITLE == <<84, 73, 84, 76, 69, 0>>

\* {'seed': None} and {'seed': <bytes>}
NoSeed == [some |-> FALSE, val |-> <<>>]
SomeSeed(b) == [some |-> TRUE, val |-> b]

\* bool(data['seed']): None and the empty byte string are false
TruthyNonZero(seed) == seed.some /\ \E i \in 1..Len(seed.val) : seed.val[i] # 0
Truthy(seed) == seed.some /\ Len(seed.val) > 0

\* a dict as a function; d[k] = v
EmptyDict == <<>>
DictSet(d, k, v) == [x \in (DOMAIN d) \cup {k} |-> IF x = k THEN v ELSE d[x]]

\* order of the title IDs as integers
TidLessLE(a, b) == \E i \in 1..8 : a[9 - i] < b[9 - i] /\ \A j \in 1..(i - 1) : a[9 - j] = b[9 - j]
TidLess(a, b) == \E i \in 1..8 : a[i] < b[i] /\ \A j \in 1..(i - 1) : a[j] = b[j]

\* sorted(data.items()): the keys in ascending order
RECURSIVE SortedKeys(_)
SortedKeys(S) ==
    IF S = {} THEN <<>>
    ELSE LET m == CHOOSE x \in S : \A y \in S : ~TidLess(y, x)
         IN <<m>> \o SortedKeys(S \ {m})

----------------------------------------------------------------------------
(* load_cifinish *)

\* the body of the for loop for one entry: the fields read from raw_entry
EntrySize(version) == IF version = 1 THEN 48 ELSE 32

EntryFieldsAsV3(version, raw) ==
    [title_magic |-> PySlice(raw, 0, 6), title_id |-> Reverse(PySlice(raw, 8, 16)),
     has_seed |-> PyAt(raw, 6), seed |-> PySlice(raw, 16, 32)]

EntryFields(version, raw) ==
    IF version = 1 THEN
        [title_magic |-> PySlice(raw, 10, 16), title_id |-> Reverse(PySlice(raw, 0, 8)),
         has_seed |-> PyAt(raw, 9), seed |-> PySlice(raw, 32, 48)]
    ELSE IF version = 2 THEN
        [title_magic |-> PySlice(raw, 0, 6), title_id |-> Reverse(PySlice(raw, 6, 14)),
         has_seed |-> PyAt(raw, 14), seed |-> PySlice(raw, 16, 32)]
    ELSE
        [title_magic |-> PySlice(raw, 0, 6), title_id |-> Reverse(PySlice(raw, 8, 16)),
         has_seed |-> PyAt(raw, 6), seed |-> PySlice(raw, 16, 32)]

LoadOk(d) == [ok |-> TRUE, err |-> "", data |-> d]
LoadErr(e) == [ok |-> FALSE, err |-> e, data |-> EmptyDict]

\* for _ in range(count): ... ; pos is the read position of f
RECURSIVE LoadLoop(_, _, _, _, _)
LoadLoop(f, version, pos, left, data) ==
    IF left = 0 THEN LoadOk(data)
    ELSE IF version \notin {1, 2, 3} THEN LoadErr("InvalidCIFinishError")
    ELSE LET raw == PySlice(f, pos, pos + EntrySize(version))
         IN IF Len(raw) # EntrySize(version) THEN LoadErr("InvalidCIFinishError")
            ELSE LET e == EntryFields(version, raw)
                     d2 == IF e.title_magic = MAGIC_TITLE
                           THEN DictSet(data, e.title_id,
                                        IF e.has_seed # 0 THEN SomeSeed(e.seed) ELSE NoSeed)
                           ELSE data
                 IN LoadLoop(f, version, pos + EntrySize(version), left - 1, d2)

\* f is the content of the file at path, or NoFile when there is none
NoFile == <<-1>>

load_cifinish(f) ==
    IF f = NoFile THEN LoadOk(EmptyDict)
    ELSE LET header == PySlice(f, 0, 16)
         IN IF PySlice(header, 0, 8) # MAGIC_CIFINISH THEN LoadErr("InvalidCIFinishError")
            ELSE LoadLoop(f, FromLE(PySlice(header, 8, 12)), 16,
                          FromLE(PySlice(header, 12, 16)), EmptyDict)

----------------------------------------------------------------------------
(* save_cifinish *)

\* b''.join(finalize_entry_data) for one (tid, data) of entries
FinalizeEntry(tid, seed) ==
    MAGIC_TITLE
    \o <<IF Truthy(seed) THEN 1 ELSE 0>>
    \o <<0>>
    \o Reverse(tid)
    \o (IF Truthy(seed) THEN seed.val ELSE Rep(0, 16))

\* the byte strings handed to out.write, in order
SaveWrites(data) ==
    LET entries == SortedKeys(DOMAIN data)
    IN <<MAGIC_CIFINISH, ToLE(CIFINISH_VERSION, 4), ToLE(Len(entries), 4)>>
       \o [i \in 1..Len(entries) |-> FinalizeEntry(entries[i], data[entries[i]])]

\* the file after save_cifinish has returned
save_cifinish(data) == Concat(SaveWrites(data))

----------------------------------------------------------------------------
(* The titles given on the command line *)

TidApp  == <<0, 4, 0, 0, 0, 0, 1, 2>>
TidApp2 == <<0, 4, 0, 0, 0, 0, 2, 1>>
TidDlc  == <<0, 4, 0, 140, 0, 0, 1, 2>>
TidOld  == <<0, 4, 0, 0, 0, 0, 0, 9>>

SeedZero == Rep(0, 16)
SeedA == [i \in 1..16 |-> i]
SeedB == [i \in 1..16 |-> 255 - i]

Content(cindex, id, size) == [cindex |-> cindex, id |-> id, size |-> size]

\* what a reader (CIAReader / CDNReader) exposes of a title: tmd.title_id,
\* tmd.save_size, tmd.title_version, content_info, contents[0].flags.uses_seed
\* and the seed get_seed returns; error is the exception opening it raises
\* ncch_version, product_code and extdata_id are contents[0].version,
\* contents[0].product_code and the 8 bytes read from its extended header
TitleApp ==
    [tid |-> TidApp, save_size |-> 524288, title_version |-> 1040,
     content_info |-> <<Content(0, 0, 3145728), Content(1, 1, 256)>>,
     uses_seed |-> TRUE, seed |-> SeedA, error |-> "none",
     ncch_version |-> 2, product_code |-> <<67, 84, 82, 45, 80, 45, 65, 66, 67, 68>>,
     extdata_id |-> <<18, 52, 0, 0, 0, 0, 0, 0>>]
TitleDlc ==
    [tid |-> TidDlc, save_size |-> 0, title_version |-> 16,
     content_info |-> <<Content(0, 16, 256), Content(1, 17, 512)>>,
     uses_seed |-> TRUE, seed |-> SeedZero, error |-> "none",
     ncch_version |-> 0, product_code |-> <<67, 84, 82, 45, 77, 45, 65, 66, 67, 68, 48, 48, 48, 48, 48, 49>>,
     extdata_id |-> Rep(0, 8)]
\* a CIA that holds two of the contents of a DLC title, with indices above 255
TitleDlcPartial ==
    [TitleDlc EXCEPT !.content_info = <<Content(256, 272, 256), Content(257, 273, 512)>>]
\* a file that is no CIA: CIAReader raises InvalidCIAError, a CIAError, so
\* prepare_titles reads it as a TMD with CDNReader, which raises in turn
TitleBadCia == [TitleDlc EXCEPT !.error = "InvalidTMDError"]
\* a title whose seed is not in seeddb.bin: opening its NCCH raises
TitleNoSeed == [TitleApp EXCEPT !.error = "MissingSeedError"]

Titles == {TitleApp, TitleDlc, TitleDlcPartial, TitleBadCia, TitleNoSeed}

Batches == UNION {[1..n -> Titles] : n \in 0..MaxBatch}

----------------------------------------------------------------------------
(* Journals found at <sd>/cifinish.bin when start() is called *)

\* one entry in each of the three layouts load_cifinish reads; other is the
\* filler of the bytes load_cifinish ignores
EntryV1(magic, tid, has_seed, seed, other) ==
    Reverse(tid) \o <<other, has_seed>> \o magic \o Rep(other, 16) \o seed
EntryV2(magic, tid, has_seed, seed, other) ==
    magic \o Reverse(tid) \o <<has_seed, other>> \o seed
EntryV3(magic, tid, has_seed, seed, other) ==
    magic \o <<has_seed, other>> \o Reverse(tid) \o seed

Header(version, count) == MAGIC_CIFINISH \o ToLE(version, 4) \o ToLE(count, 4)

MAGIC_OTHER == <<88, 88, 88, 88, 88, 0>>

\* the journal of an earlier run: TidApp2 with a seed, TidOld without one (its
\* seed field holds stale bytes), TidApp with the all-zero seed, and an entry
\* that is not a TITLE entry
OldEntries(E(_, _, _, _, _)) ==
    E(MAGIC_TITLE, TidApp2, 1, SeedB, 7)
    \o E(MAGIC_OTHER, TidDlc, 1, SeedA, 7)
    \o E(MAGIC_TITLE, TidOld, 0, SeedA, 7)
    \o E(MAGIC_TITLE, TidApp, 2, SeedZero, 7)

OldMap ==
    DictSet(DictSet(DictSet(EmptyDict, TidApp2, SomeSeed(SeedB)), TidOld, NoSeed),
            TidApp, SomeSeed(SeedZero))

JournalV1 == Header(1, 4) \o OldEntries(EntryV1)
JournalV2 == Header(2, 4) \o OldEntries(EntryV2)
JournalV3 == Header(3, 4) \o OldEntries(EntryV3)
\* one entry short of its count
JournalTruncated == Header(3, 5) \o OldEntries(EntryV3)
\* a version this program does not know, without entries
JournalV4Empty == Header(4, 0)

Journals == {NoFile, JournalV1, JournalV2, JournalV3, JournalTruncated, JournalV4Empty}

----------------------------------------------------------------------------
(* The id0 directory <sd>/Nintendo 3DS/<id0> as scandir lists it *)

HexDigits == {"0", "1", "2", "3", "4", "5", "6", "7", "8", "9",
              "a", "b", "c", "d", "e", "f", "A", "B", "C", "D", "E", "F"}

\* bytes.fromhex(name) raises no ValueError: pairs of hex digits, with
\* spaces allowed between the pairs
RECURSIVE FromHexOk(_)
FromHexOk(name) ==
    IF Len(name) = 0 THEN TRUE
    ELSE IF name[1] = " " THEN FromHexOk(Tail(name))
    ELSE IF Len(name) < 2 THEN FALSE
    ELSE name[1] \in HexDigits /\ name[2] \in HexDigits /\ FromHexOk(Tail(Tail(name)))

DirEntry(name, is_dir) == [name |-> name, is_dir |-> is_dir]

NameHex1 == Rep("a", 32)
NameHex2 == Rep("0", 16) \o Rep("F", 16)
NameHex3 == Rep("b", 32)
NameShort == Rep("a", 30)
NameNotHex == Rep("a", 31) \o <<"g">>
NameSpaced == Rep("a", 16) \o <<" ", " ">> \o Rep("b", 14)
NameOddSpaced == Rep("a", 15) \o <<" ">> \o Rep("b", 16)

Listings ==
    { {},
      {DirEntry(NameHex1, TRUE), DirEntry(NameHex2, TRUE)},
      {DirEntry(NameHex1, TRUE), DirEntry(NameHex3, FALSE), DirEntry(NameShort, TRUE),
       DirEntry(NameNotHex, TRUE), DirEntry(NameOddSpaced, TRUE)},
      {DirEntry(NameHex3, FALSE), DirEntry(NameNotHex, TRUE)},
      {DirEntry(NameSpaced, TRUE)},
      {DirEntry(NameHex2, TRUE), DirEntry(NameSpaced, TRUE)} }

\* get_sd_path: the names appended to id1s
Id1s(entries) ==
    {d.name : d \in {e \in entries : e.is_dir /\ Len(e.name) = 32 /\ FromHexOk(e.name)}}

----------------------------------------------------------------------------
(* Files and directories below <sd>/Nintendo 3DS/<id0>/<id1>/title/<tid> *)

\* dir is the DLC directory index (cindex // 256), -1 outside one
SdPath(tid, kind, dir, id) == [tid |-> tid, kind |-> kind, dir |-> dir, id |-> id]

TmdFile(tid) == SdPath(tid, "tmd", -1, 0)
AppFile(tid, dir, id) == SdPath(tid, "app", dir, id)
SavFile(tid) == SdPath(tid, "sav", -1, 1)
CmdFile(tid, cmd_id) == SdPath(tid, "cmd", -1, cmd_id)

CmdDir(tid) == SdPath(tid, "content/cmd", -1, 0)
ContentDir(tid) == SdPath(tid, "content", -1, 0)
DataDir(tid) == SdPath(tid, "data", -1, 0)
DlcDir(tid, x) == SdPath(tid, "content/dlc", x, 0)

\* roundup(offset, alignment) of pyctr.util
roundup(offset, alignment) == ((offset + alignment - 1) \div alignment) * alignment

RECURSIVE SumSeq(_)
SumSeq(s) == IF Len(s) = 0 THEN 0 ELSE Head(s) + SumSeq(Tail(s))

\* is_dlc, has_manual, cmd_id and title_size of start()
is_dlc(cia) == SubSeq(cia.tid, 1, 4) = <<0, 4, 0, 140>>
HasManualAnyTitle(cia) == \E i \in 1..Len(cia.content_info) : cia.content_info[i].cindex = 1
has_manual(cia) == ~is_dlc(cia) /\ \E i \in 1..Len(cia.content_info) : cia.content_info[i].cindex = 1
cmd_id(cia) == IF is_dlc(cia) THEN Len(cia.content_info) ELSE 1

\* Keyslot.SD of pyctr.crypto
KeyslotSD == 52

\* a path below the id1 directory, 'title/<tid_parts[0]>/<tid_parts[1]>/...': the
\* two halves of the title ID and the components after them; a component is a
\* fixed name (n = -1), a directory index or the number and extension of a file
Seg(name, n) == [name |-> name, n |-> n]
PathBelowTitle(parts, segs) == [root |-> "title", tid_parts |-> parts, segs |-> segs]

\* tid_parts, title_root_cmd and content_root_cmd of start()
tid_parts(cia) == <<SubSeq(cia.tid, 1, 4), SubSeq(cia.tid, 5, 8)>>
title_root_cmd(cia) == PathBelowTitle(tid_parts(cia), <<>>)
PathAdd(path, segs) == [path EXCEPT !.segs = @ \o segs]
content_root_cmd(cia) == PathAdd(title_root_cmd(cia), <<Seg("content", -1)>>)

\* enc_path of the TMD, of a content, of the save and of the CMD
EncPathTmd(cia) == PathAdd(content_root_cmd(cia), <<Seg(".tmd", 0)>>)
EncPathContentFlat(cia, co) == PathAdd(content_root_cmd(cia), <<Seg(".app", co.id)>>)
EncPathContent(cia, co) ==
    IF is_dlc(cia)
    THEN PathAdd(content_root_cmd(cia), <<Seg("dir_index", co.cindex \div 256), Seg(".app", co.id)>>)
    ELSE PathAdd(content_root_cmd(cia), <<Seg(".app", co.id)>>)
EncPathSave(cia) == PathAdd(title_root_cmd(cia), <<Seg("data", -1), Seg(".sav", 1)>>)
EncPathCmd(cia, id) == PathAdd(content_root_cmd(cia), <<Seg("cmd", -1), Seg(".cmd", id)>>)

\* where a file of the SD lies below the id1 directory: join(sd_path, 'title',
\* *tid_parts) and the joins that make out_path
RelPath(f) ==
    LET title_root == PathBelowTitle(<<SubSeq(f.tid, 1, 4), SubSeq(f.tid, 5, 8)>>, <<>>)
        content_root == PathAdd(title_root, <<Seg("content", -1)>>)
    IN CASE f.kind = "tmd" -> PathAdd(content_root, <<Seg(".tmd", f.id)>>)
         [] f.kind = "app" /\ f.dir = -1 -> PathAdd(content_root, <<Seg(".app", f.id)>>)
         [] f.kind = "app" /\ f.dir # -1 ->
                PathAdd(content_root, <<Seg("dir_index", f.dir), Seg(".app", f.id)>>)
         [] f.kind = "sav" -> PathAdd(title_root, <<Seg("data", -1), Seg(".sav", f.id)>>)
         [] f.kind = "cmd" -> PathAdd(content_root, <<Seg("cmd", -1), Seg(".cmd", f.id)>>)

\* the cipher a file is written through: create_ctr_io / create_ctr_cipher with
\* a keyslot and sd_path_to_iv(enc_path); NoEnc for a file this run did not write
Enc(keyslot, enc_path) == [keyslot |-> keyslot, enc_path |-> enc_path]
NoEnc == Enc(-1, PathBelowTitle(<<>>, <<>>))

\* a file on the SD: being written (open) or closed; gen tells the files of
\* this run from those that were there before; enc is what encrypts its bytes
SdFile(open, gen, size, enc) == [open |-> open, gen |-> gen, size |-> size, enc |-> enc]

title_size(cia) ==
    LET sizes == Rep(1, 5)
                 \o (IF cia.save_size # 0 THEN <<1, cia.save_size>> ELSE <<>>)
                 \o [i \in 1..Len(cia.content_info) |-> cia.content_info[i].size]
    IN SumSeq([i \in 1..Len(sizes) |-> roundup(sizes[i], TITLE_ALIGN_SIZE)])

\* the directories makedirs creates for a title (makedirs creates the parents)
TitleDirs(cia) ==
    {ContentDir(cia.tid), CmdDir(cia.tid)}
    \cup (IF cia.save_size # 0 THEN {DataDir(cia.tid)} ELSE {})
    \cup (IF is_dlc(cia)
          THEN {DlcDir(cia.tid, x) : x \in 0..((Len(cia.content_info) - 1) \div 256)}
          ELSE {})

\* out_path of a content and the directory it lies in
ContentPath(cia, co) ==
    IF is_dlc(cia) THEN AppFile(cia.tid, co.cindex \div 256, co.id)
    ELSE AppFile(cia.tid, -1, co.id)
ContentParent(cia, co) ==
    IF is_dlc(cia) THEN DlcDir(cia.tid, co.cindex \div 256) ELSE ContentDir(cia.tid)

\* the Title Info Entry, by field
TitleInfoEntry(cia) ==
    [title_size |-> title_size(cia), title_type |-> 64, title_version |-> cia.title_version,
     flags_0 |-> IF has_manual(cia) THEN 1 ELSE 0, tmd_id |-> 0, cmd_id |-> cmd_id(cia),
     flags_1 |-> IF cia.save_size # 0 THEN 1 ELSE 0]

\* bytes.ljust(width, b'\0')
Ljust(b, width) == b \o Rep(0, Max(0, width - Len(b)))

\* the values randint(0, 0xFFFFFFFF).to_bytes(4, 'little') takes in the model
Unknowns == {Rep(0, 4), Rep(255, 4)}

\* b''.join(title_info_entry_data), unknown being the bytes of the random field
title_info_entry_data(cia, unknown) ==
    LET e == TitleInfoEntry(cia)
    IN ToLE(e.title_size, 8) \o ToLE(e.title_type, 4) \o ToLE(e.title_version, 2)
       \o ToLE(cia.ncch_version, 2) \o ToLE(e.flags_0, 4) \o ToLE(e.tmd_id, 4)
       \o ToLE(e.cmd_id, 4) \o ToLE(e.flags_1, 4) \o PySlice(cia.extdata_id, 0, 4)
       \o Rep(0, 4) \o <<0, 0, 0, 0, 1, 0, 0, 0>> \o Ljust(cia.product_code, 16)
       \o Rep(0, 16) \o unknown \o Rep(0, 44)

\* the value stored in cifinish_data for a title
CifinishSeed(cia) == IF cia.uses_seed THEN SomeSeed(cia.seed) ELSE NoSeed

\* every file start() writes for a title when contents are not skipped
TitleFiles(cia) ==
    {TmdFile(cia.tid), CmdFile(cia.tid, cmd_id(cia))}
    \cup {ContentPath(cia, cia.content_info[i]) : i \in 1..Len(cia.content_info)}
    \cup (IF cia.save_size # 0 THEN {SavFile(cia.tid)} ELSE {})

----------------------------------------------------------------------------
(* State *)

VARIABLES
    \* the command line and the SD card as start() finds them
    paths, skip_contents, overwrite_saves, cifinish_orig, id0_entries,
    \* CustomInstall: position in prepare_titles / start, self.readers
    pc, readers, id1,
    \* the title loop: enumerate index, content index, left of copy_with_progress
    idx, cidx, left,
    \* the SD card below title/: directories and files
    sd_dirs, sd_files,
    \* title_info_entries and cifinish_data of start()
    title_info_entries, cifinish_data,
    \* cifinish.bin on disk, the bytes written but not yet flushed, next write
    cif_disk, cif_buf, cif_w,
    \* the temporary directory, the save3ds_fuse invocations, the title database,
    \* <sd>/3ds/custom-install-finalize.3dsx
    tempdir, invocations, title_db, hb_3dsx,
    \* what start() returned, the exception that left it
    result, exc,
    \* the user has asked to cancel
    cancel_requested,
    \* a journal on its own: map, file and what load_cifinish made of it
    cf_pc, cf_d, cf_file, cf_out,
    \* a function on its own: which one, its argument and what it returned
    fn_pc, fn_in, fn_out,
    \* pyctr: the CryptoEngine objects, the module-level bootROM key cache of
    \* crypto.py, the threads at work in pyctr, the underlying file object and
    \* the locks, the number of calls made so far, the open section files
    engines, b9_global, threads, handle, calls, files

inputs == <<paths, skip_contents, overwrite_saves, cifinish_orig, id0_entries>>
loopv == <<idx, cidx, left>>
sdv == <<sd_dirs, sd_files>>
dictv == <<title_info_entries, cifinish_data>>
cifv == <<cif_disk, cif_buf, cif_w>>
dbv == <<tempdir, invocations, title_db, hb_3dsx>>
endv == <<result, exc>>
cfv == <<cf_pc, cf_d, cf_file, cf_out>>
fnv == <<fn_pc, fn_in, fn_out>>
pyctrv == <<engines, b9_global, threads, handle, calls, files>>

vars == <<inputs, pc, readers, id1, loopv, sdv, dictv, cifv, dbv, endv, cancel_requested, cfv, fnv, pyctrv>>

NoResult == [result |-> "", copied |-> FALSE]
Result(r, copied) == [result |-> r, copied |-> copied]

NoTempdir == [exists |-> FALSE, files |-> {}]

\* the SD before the run: empty below title/, or holding a save of TidApp
SdBefore ==
    { [dirs |-> {}, files |-> EmptyDict],
      [dirs |-> {DataDir(TidApp)},
       files |-> DictSet(EmptyDict, SavFile(TidApp), SdFile(FALSE, "old", 524288, NoEnc))] }

CfIdle ==
    /\ cf_pc = "idle"
    /\ cf_d = EmptyDict
    /\ cf_file = NoFile
    /\ cf_out = LoadOk(EmptyDict)

FnIdle ==
    /\ fn_pc = "idle"
    /\ fn_in = <<>>
    /\ fn_out = <<>>

PyctrIdle ==
    /\ engines = <<>>
    /\ b9_global = <<>>
    /\ threads = <<>>
    /\ handle = <<>>
    /\ calls = 0
    /\ files = <<>>

Init ==
    /\ paths \in Batches
    /\ skip_contents \in BOOLEAN
    /\ overwrite_saves \in BOOLEAN
    /\ cifinish_orig \in Journals
    /\ id0_entries \in Listings
    /\ pc = "prepare_titles"
    /\ readers = <<>>
    /\ id1 = <<>>
    /\ idx = 1 /\ cidx = 1 /\ left = 0
    /\ \E sd \in SdBefore : sd_dirs = sd.dirs /\ sd_files = sd.files
    /\ title_info_entries = EmptyDict
    /\ cifinish_data = EmptyDict
    /\ cif_disk = cifinish_orig /\ cif_buf = <<>> /\ cif_w = 0
    /\ tempdir = NoTempdir
    /\ invocations = <<>>
    /\ title_db = {}
    /\ hb_3dsx = FALSE
    /\ result = NoResult
    /\ exc = ""
    /\ cancel_requested = FALSE
    /\ CfIdle
    /\ FnIdle
    /\ PyctrIdle

Raise(e) == pc' = "raised" /\ exc' = e /\ result' = result
Return(r, copied) == pc' = "done" /\ result' = Result(r, copied) /\ exc' = exc

----------------------------------------------------------------------------
(* prepare_titles and the head of start() *)

\* prepare_titles: a reader per path; the first path that cannot be read
\* raises out of the loop, before self.readers is assigned
prepare_titles ==
    /\ pc = "prepare_titles"
    /\ LET bad == {i \in 1..Len(paths) : paths[i].error # "none"}
       IN IF bad = {}
          THEN /\ readers' = paths
               /\ pc' = "start"
               /\ UNCHANGED endv
          ELSE /\ readers' = readers
               /\ Raise(paths[CHOOSE i \in bad : \A j \in bad : i <= j].error)
    /\ UNCHANGED <<inputs, id1, loopv, sdv, dictv, cifv, dbv, cancel_requested, cfv, fnv, pyctrv>>

\* if not isfile(save3ds_fuse_path): return None, False
CheckSave3dsFuse ==
    /\ pc = "start"
    /\ \E found \in BOOLEAN :
          IF found THEN pc' = "get_sd_path" /\ UNCHANGED endv
          ELSE Return("None", FALSE)
    /\ UNCHANGED <<inputs, readers, id1, loopv, sdv, dictv, cifv, dbv, cancel_requested, cfv, fnv, pyctrv>>

\* [sd_path, id1s] = self.get_sd_path() and the two SDPathError checks
get_sd_path ==
    /\ pc = "get_sd_path"
    /\ LET id1s == Id1s(id0_entries)
       IN IF Cardinality(id1s) > 1 \/ Cardinality(id1s) = 0
          THEN Raise("SDPathError") /\ id1' = id1
          ELSE /\ id1' = CHOOSE n \in id1s : TRUE
               /\ pc' = "load_cifinish"
               /\ UNCHANGED endv
    /\ UNCHANGED <<inputs, readers, loopv, sdv, dictv, cifv, dbv, cancel_requested, cfv, fnv, pyctrv>>

\* the pc after the body of the title loop has run for reader i - 1
LoopHead(i) == IF i <= Len(readers) THEN "title" ELSE "save_cifinish"

\* title_info_entries = {}; cifinish_data = load_cifinish(cifinish_path)
LoadJournal ==
    /\ pc = "load_cifinish"
    /\ LET r == load_cifinish(cif_disk)
       IN IF r.ok
          THEN /\ cifinish_data' = r.data
               /\ title_info_entries' = EmptyDict
               /\ pc' = LoopHead(1)
               /\ UNCHANGED endv
          ELSE /\ Raise(r.err)
               /\ UNCHANGED dictv
    /\ UNCHANGED <<inputs, readers, id1, loopv, sdv, cifv, dbv, cancel_requested, cfv, fnv, pyctrv>>

----------------------------------------------------------------------------
(* The title loop of start() *)

cia == readers[idx]

\* leaving a with block closes the file
ClosedNot(f) == f
Closed(f) == [f EXCEPT !.open = FALSE]

\* for idx, cia in enumerate(self.readers): on_cia_start and the values
\* computed before anything is written
TitleStartWritingAnyway ==
    /\ pc = "title"
    /\ pc' = "makedirs"
    /\ cidx' = 1 /\ left' = 0 /\ idx' = idx
    /\ UNCHANGED <<inputs, readers, id1, sdv, dictv, cifv, dbv, endv, cancel_requested, cfv, fnv, pyctrv>>

TitleStart ==
    /\ pc = "title"
    /\ pc' = IF skip_contents THEN "title_info_entry" ELSE "makedirs"
    /\ cidx' = 1 /\ left' = 0 /\ idx' = idx
    /\ UNCHANGED <<inputs, readers, id1, sdv, dictv, cifv, dbv, endv, cancel_requested, cfv, fnv, pyctrv>>

\* makedirs(content_root/cmd), makedirs(title_root/data), the DLC directories
MakeDirs ==
    /\ pc = "makedirs"
    /\ sd_dirs' = sd_dirs \cup TitleDirs(cia)
    /\ pc' = "write_tmd"
    /\ UNCHANGED <<inputs, readers, id1, loopv, sd_files, dictv, cifv, dbv, endv,
                   cancel_requested, cfv, fnv, pyctrv>>

\* with open(join(content_root, tmd_filename), 'wb') as o: ... e.write(bytes(cia.tmd))
WriteTmd ==
    /\ pc = "write_tmd"
    /\ sd_files' = DictSet(sd_files, TmdFile(cia.tid), Closed(SdFile(TRUE, "new", 1, Enc(KeyslotSD, EncPathTmd(cia)))))
    /\ pc' = IF Len(cia.content_info) >= 1 THEN "open_content" ELSE "save"
    /\ UNCHANGED <<inputs, readers, id1, loopv, sd_dirs, dictv, cifv, dbv, endv,
                   cancel_requested, cfv, fnv, pyctrv>>

\* with cia.open_raw_section(co.cindex) as s, open(out_path, 'wb') as o:
\* open fails when the directory of out_path does not exist
OpenContent ==
    /\ pc = "open_content"
    /\ LET co == cia.content_info[cidx]
       IN IF ContentParent(cia, co) \in sd_dirs
          THEN /\ sd_files' = DictSet(sd_files, ContentPath(cia, co), SdFile(TRUE, "new", 0,
                                                Enc(KeyslotSD, EncPathContent(cia, co))))
               /\ left' = co.size
               /\ pc' = "copy"
               /\ UNCHANGED endv
          ELSE /\ Raise("FileNotFoundError")
               /\ UNCHANGED <<sd_files, left>>
    /\ UNCHANGED <<inputs, readers, id1, idx, cidx, sd_dirs, dictv, cifv, dbv,
                   cancel_requested, cfv, fnv, pyctrv>>

\* copy_with_progress: one turn of while left > 0, ending with the
\* update_percentage event
CopyChunk ==
    /\ pc = "copy"
    /\ left > 0
    /\ LET co == cia.content_info[cidx]
           to_read == Min(READ_SIZE, left)
           o == sd_files[ContentPath(cia, co)]
       IN /\ sd_files' = DictSet(sd_files, ContentPath(cia, co),
                                 [o EXCEPT !.size = o.size + to_read])
          /\ left' = left - to_read
    /\ UNCHANGED <<inputs, pc, readers, id1, idx, cidx, sd_dirs, dictv, cifv, dbv, endv,
                   cancel_requested, cfv, fnv, pyctrv>>

\* copy_with_progress returns and the with block of the content ends
CloseContent ==
    /\ pc = "copy"
    /\ left <= 0
    /\ LET co == cia.content_info[cidx]
       IN sd_files' = DictSet(sd_files, ContentPath(cia, co),
                              Closed(sd_files[ContentPath(cia, co)]))
    /\ cidx' = cidx + 1
    /\ pc' = IF cidx + 1 <= Len(cia.content_info) THEN "open_content" ELSE "save"
    /\ UNCHANGED <<inputs, readers, id1, idx, left, sd_dirs, dictv, cifv, dbv, endv,
                   cancel_requested, cfv, fnv, pyctrv>>

\* if cia.tmd.save_size: ... if self.overwrite_saves or not isfile(out_path):
WriteSaveAlways ==
    /\ pc = "save"
    /\ IF cia.save_size # 0
       THEN sd_files' = DictSet(sd_files, SavFile(cia.tid),
                                Closed(SdFile(TRUE, "new", 32 + Max(0, cia.save_size - 32),
                                               Enc(KeyslotSD, EncPathSave(cia)))))
       ELSE sd_files' = sd_files
    /\ pc' = "cmd"
    /\ UNCHANGED <<inputs, readers, id1, loopv, sd_dirs, dictv, cifv, dbv, endv,
                   cancel_requested, cfv, fnv, pyctrv>>

WriteSave ==
    /\ pc = "save"
    /\ IF cia.save_size # 0 /\ (overwrite_saves \/ SavFile(cia.tid) \notin DOMAIN sd_files)
       THEN sd_files' = DictSet(sd_files, SavFile(cia.tid),
                                Closed(SdFile(TRUE, "new", 32 + Max(0, cia.save_size - 32),
                                               Enc(KeyslotSD, EncPathSave(cia)))))
       ELSE sd_files' = sd_files
    /\ pc' = "cmd"
    /\ UNCHANGED <<inputs, readers, id1, loopv, sd_dirs, dictv, cifv, dbv, endv,
                   cancel_requested, cfv, fnv, pyctrv>>

\* generate and write cmd
WriteCmd ==
    /\ pc = "cmd"
    /\ sd_files' = DictSet(sd_files, CmdFile(cia.tid, cmd_id(cia)),
                          Closed(SdFile(TRUE, "new", 1, Enc(KeyslotSD, EncPathCmd(cia, cmd_id(cia))))))
    /\ pc' = "title_info_entry"
    /\ UNCHANGED <<inputs, readers, id1, loopv, sd_dirs, dictv, cifv, dbv, endv,
                   cancel_requested, cfv, fnv, pyctrv>>

\* title_info_entries[cia.tmd.title_id] = ...; cifinish_data[int(title_id, 16)] = ...
BuildTitleInfoEntry ==
    /\ pc = "title_info_entry"
    /\ \E unknown \in Unknowns :
          title_info_entries' = DictSet(title_info_entries, cia.tid,
                                        title_info_entry_data(cia, unknown))
    /\ cifinish_data' = DictSet(cifinish_data, cia.tid, CifinishSeed(cia))
    /\ idx' = idx + 1
    /\ pc' = LoopHead(idx + 1)
    /\ UNCHANGED <<inputs, readers, id1, cidx, left, sdv, cifv, dbv, endv, cancel_requested, cfv, fnv, pyctrv>>

\* a write to the SD fails (OSError): the with blocks close what is open and
\* the exception leaves start()
WritePcs == {"makedirs", "write_tmd", "open_content", "copy", "save", "cmd"}

IOFailureSavingJournal ==
    /\ pc \in WritePcs
    /\ sd_files' = [f \in DOMAIN sd_files |-> Closed(sd_files[f])]
    /\ cif_disk' = save_cifinish(cifinish_data)
    /\ Raise("OSError")
    /\ UNCHANGED <<inputs, readers, id1, loopv, sd_dirs, dictv, cif_buf, cif_w, dbv,
                   cancel_requested, cfv, fnv, pyctrv>>

IOFailure ==
    /\ pc \in WritePcs
    /\ sd_files' = [f \in DOMAIN sd_files |-> Closed(sd_files[f])]
    /\ Raise("OSError")
    /\ UNCHANGED <<inputs, readers, id1, loopv, sd_dirs, dictv, cifv, dbv, cancel_requested, cfv, fnv, pyctrv>>

----------------------------------------------------------------------------
(* save_cifinish(cifinish_path, cifinish_data), write by write *)

\* open(path, 'wb'): the file is created or truncated
OpenAb(f) == IF f = NoFile THEN <<>> ELSE f
OpenWb(f) == <<>>

SaveOpen ==
    /\ pc = "save_cifinish"
    /\ cif_disk' = OpenWb(cif_disk)
    /\ cif_buf' = <<>>
    /\ cif_w' = 1
    /\ pc' = "save_write"
    /\ UNCHANGED <<inputs, readers, id1, loopv, sdv, dictv, dbv, endv, cancel_requested, cfv, fnv, pyctrv>>

\* one out.write(...): the bytes go to the buffer of the file object
SaveWrite ==
    /\ pc = "save_write"
    /\ cif_w <= Len(SaveWrites(cifinish_data))
    /\ cif_buf' = cif_buf \o SaveWrites(cifinish_data)[cif_w]
    /\ cif_w' = cif_w + 1
    /\ UNCHANGED <<inputs, pc, readers, id1, loopv, sdv, dictv, cif_disk, dbv, endv,
                   cancel_requested, cfv, fnv, pyctrv>>

\* the file object flushes its buffer to the disk
SaveFlush ==
    /\ pc = "save_write"
    /\ cif_buf # <<>>
    /\ cif_disk' = cif_disk \o cif_buf
    /\ cif_buf' = <<>>
    /\ UNCHANGED <<inputs, pc, readers, id1, loopv, sdv, dictv, cif_w, dbv, endv,
                   cancel_requested, cfv, fnv, pyctrv>>

\* a write fails (OSError): the with block closes the file, what was flushed stays
SaveFailure ==
    /\ pc = "save_write"
    /\ cif_buf' = <<>>
    /\ Raise("OSError")
    /\ UNCHANGED <<inputs, readers, id1, loopv, sdv, dictv, cif_disk, cif_w, dbv,
                   cancel_requested, cfv, fnv, pyctrv>>

\* the with block ends: flush and close; then if title_info_entries: ... else:
\* return None, False
SaveClose ==
    /\ pc = "save_write"
    /\ cif_w > Len(SaveWrites(cifinish_data))
    /\ cif_disk' = cif_disk \o cif_buf
    /\ cif_buf' = <<>>
    /\ IF DOMAIN title_info_entries # {}
       THEN pc' = "extract" /\ UNCHANGED endv
       ELSE Return("None", FALSE)
    /\ UNCHANGED <<inputs, readers, id1, loopv, sdv, dictv, cif_w, dbv, cancel_requested, cfv, fnv, pyctrv>>

----------------------------------------------------------------------------
(* The title database: save3ds_fuse -x, the entries, save3ds_fuse -i *)

\* if out.returncode:
FailedNever(returncode) == FALSE
Failed(returncode) == returncode # 0

ReturnCodes == {0, 1}

\* one run of save3ds_fuse: its last argument and out.returncode
Run(arg, returncode) == [arg |-> arg, returncode |-> returncode]

\* with TemporaryDirectory(...) as tempdir: subprocess.run(common_args + ['-x'])
Extract ==
    /\ pc = "extract"
    /\ \E returncode \in ReturnCodes :
          /\ invocations' = Append(invocations, Run("-x", returncode))
          /\ IF Failed(returncode)
             THEN /\ Return("False", FALSE)
                  /\ tempdir' = NoTempdir
             ELSE /\ pc' = "write_entries"
                  /\ tempdir' = [exists |-> TRUE, files |-> {}]
                  /\ UNCHANGED endv
    /\ UNCHANGED <<inputs, readers, id1, loopv, sdv, dictv, cifv, title_db, hb_3dsx,
                   cancel_requested, cfv, fnv, pyctrv>>

\* for title_id, entry in title_info_entries.items(): write it to tempdir
WriteEntries ==
    /\ pc = "write_entries"
    /\ tempdir' = [tempdir EXCEPT !.files = DOMAIN title_info_entries]
    /\ pc' = "import"
    /\ UNCHANGED <<inputs, readers, id1, loopv, sdv, dictv, cifv, invocations, title_db,
                   hb_3dsx, endv, cancel_requested, cfv, fnv, pyctrv>>

\* subprocess.run(common_args + ['-i']): a successful import puts the entries
\* of tempdir into the title database; leaving the with block removes tempdir
Import ==
    /\ pc = "import"
    /\ tempdir' = NoTempdir
    /\ \E returncode \in ReturnCodes :
          /\ invocations' = Append(invocations, Run("-i", returncode))
          /\ IF Failed(returncode)
             THEN /\ Return("False", FALSE)
                  /\ title_db' = title_db
             ELSE /\ pc' = "finalize"
                  /\ title_db' = title_db \cup tempdir.files
                  /\ UNCHANGED endv
    /\ UNCHANGED <<inputs, readers, id1, loopv, sdv, dictv, cifv, hb_3dsx, cancel_requested, cfv, fnv, pyctrv>>

\* if isfile(finalize_3dsx_orig_path): copyfile(...); return True, copied
CopyFinalize ==
    /\ pc = "finalize"
    /\ \E found \in BOOLEAN :
          /\ hb_3dsx' = (hb_3dsx \/ found)
          /\ Return("True", found)
    /\ UNCHANGED <<inputs, readers, id1, loopv, sdv, dictv, cifv, tempdir, invocations,
                   title_db, cancel_requested, cfv, fnv, pyctrv>>

\* the user asks to cancel while prepare_titles or start() runs
RequestCancel ==
    /\ pc \notin {"done", "raised", "idle"}
    /\ ~cancel_requested
    /\ cancel_requested' = TRUE
    /\ UNCHANGED <<inputs, pc, readers, id1, loopv, sdv, dictv, cifv, dbv, endv, cfv, fnv, pyctrv>>

Next ==
    \/ prepare_titles \/ CheckSave3dsFuse \/ get_sd_path \/ LoadJournal
    \/ TitleStart \/ MakeDirs \/ WriteTmd \/ OpenContent \/ CopyChunk \/ CloseContent
    \/ WriteSave \/ WriteCmd \/ BuildTitleInfoEntry \/ IOFailure
    \/ SaveOpen \/ SaveWrite \/ SaveFlush \/ SaveFailure \/ SaveClose
    \/ Extract \/ WriteEntries \/ Import \/ CopyFinalize

Spec == Init /\ [][Next]_vars

\* the same runs, with a user who may ask to cancel at any moment
InitCancel ==
    /\ Init
    /\ cifinish_orig \in {NoFile, JournalV3}
    /\ id0_entries = {DirEntry(NameSpaced, TRUE)}

NextCancel == Next \/ RequestCancel

SpecCancel == InitCancel /\ [][NextCancel]_vars

----------------------------------------------------------------------------
(* save_cifinish and load_cifinish on their own: a map is saved and the file *)
(* loaded again, or a given file is loaded                                   *)

TidMax == <<255, 255, 255, 255, 255, 255, 255, 255>>

CfTids == {TidApp, TidApp2, TidMax}
CfSeeds == {NoSeed, SomeSeed(SeedZero), SomeSeed(SeedA), SomeSeed(SeedB)}
CfMaps == UNION {[S -> CfSeeds] : S \in SUBSET CfTids}

\* headers with the magic and any version and count, over bodies of 0, 1 and 4 entries
CfVersions == {0, 1, 2, 3, 4, 259, 16777219}
CfCounts == {0, 1, 2, 65536}
CfBodies == {<<>>, EntryV3(MAGIC_TITLE, TidApp, 1, SeedA, 0), OldEntries(EntryV3),
             OldEntries(EntryV1)}
CfFiles == {Header(v, c) \o b : v \in CfVersions, c \in CfCounts, b \in CfBodies}

InstallIdle ==
    /\ paths = <<>> /\ skip_contents = FALSE /\ overwrite_saves = FALSE
    /\ cifinish_orig = NoFile /\ id0_entries = {}
    /\ pc = "idle" /\ readers = <<>> /\ id1 = <<>>
    /\ idx = 1 /\ cidx = 1 /\ left = 0
    /\ sd_dirs = {} /\ sd_files = EmptyDict
    /\ title_info_entries = EmptyDict /\ cifinish_data = EmptyDict
    /\ cif_disk = NoFile /\ cif_buf = <<>> /\ cif_w = 0
    /\ tempdir = NoTempdir /\ invocations = <<>> /\ title_db = {} /\ hb_3dsx = FALSE
    /\ result = NoResult /\ exc = "" /\ cancel_requested = FALSE

InitCifinish ==
    /\ InstallIdle
    /\ FnIdle
    /\ PyctrIdle
    /\ cf_out = LoadOk(EmptyDict)
    /\ \/ cf_pc = "map" /\ cf_d \in CfMaps /\ cf_file = NoFile
       \/ cf_pc = "file" /\ cf_d = EmptyDict /\ cf_file \in CfFiles

installv == <<inputs, pc, readers, id1, loopv, sdv, dictv, cifv, dbv, endv, cancel_requested>>

\* save_cifinish(path, d)
CfSave ==
    /\ cf_pc = "map"
    /\ cf_file' = save_cifinish(cf_d)
    /\ cf_pc' = "saved"
    /\ UNCHANGED <<installv, fnv, pyctrv, cf_d, cf_out>>

\* load_cifinish(path) of the file just saved
CfLoadSaved ==
    /\ cf_pc = "saved"
    /\ cf_out' = load_cifinish(cf_file)
    /\ cf_pc' = "reloaded"
    /\ UNCHANGED <<installv, fnv, pyctrv, cf_d, cf_file>>

\* load_cifinish(path) of a given file
CfLoad ==
    /\ cf_pc = "file"
    /\ cf_out' = load_cifinish(cf_file)
    /\ cf_pc' = "loaded"
    /\ UNCHANGED <<installv, fnv, pyctrv, cf_d, cf_file>>

NextCifinish == CfSave \/ CfLoadSaved \/ CfLoad

SpecCifinish == InitCifinish /\ [][NextCifinish]_vars

----------------------------------------------------------------------------
(* The CMD file of start(), built from cia.content_info *)

\* CMD_MISSING
CMD_MISSING == <<255, 255, 255, 255>>

\* a CMAC of the cmacs list: the digest over a content, or the 16 bytes
\* 'MISSING CONTENT!'
CmacOf(record) == [kind |-> "cmac", cindex |-> record.cindex, id |-> record.id]
CmacMissing == [kind |-> "MISSING CONTENT!", cindex |-> -1, id |-> -1]

\* id_bytes = bytes.fromhex(record.id)[::-1]
IdBytes(record) == ToLE(record.id, 4)

\* highest_index after 'for record in cia.content_info: highest_index = record.cindex'
highest_index(content_info) ==
    IF Len(content_info) = 0 THEN 0 ELSE content_info[Len(content_info)].cindex

\* content_ids[x]: the record stored last under index x
ContentIdsHas(content_info, x) == \E i \in 1..Len(content_info) : content_info[i].cindex = x
ContentIdsAt(content_info, x) ==
    content_info[CHOOSE i \in 1..Len(content_info) :
                     /\ content_info[i].cindex = x
                     /\ \A j \in (i + 1)..Len(content_info) : content_info[j].cindex # x]

\* installed_ids.sort(key=lambda x: int.from_bytes(x, 'little'))
RECURSIVE SortIds(_)
SortIds(ids) ==
    IF Len(ids) = 0 THEN <<>>
    ELSE LET m == CHOOSE i \in 1..Len(ids) :
                      \A j \in 1..Len(ids) :
                          \/ FromLE(ids[i]) < FromLE(ids[j])
                          \/ (FromLE(ids[i]) = FromLE(ids[j]) /\ i <= j)
         IN <<ids[m]>> \o SortIds([k \in 1..(Len(ids) - 1) |-> IF k < m THEN ids[k] ELSE ids[k + 1]])

\* ids_by_index, installed_ids, cmacs and the 16 bytes that head the CMD
BuildCmd(id, content_info) ==
    LET n == highest_index(content_info) + 1
        ids_by_index == [x \in 1..n |->
                            IF ContentIdsHas(content_info, x - 1)
                            THEN IdBytes(ContentIdsAt(content_info, x - 1)) ELSE CMD_MISSING]
        cmacs == [x \in 1..n |->
                     IF ContentIdsHas(content_info, x - 1)
                     THEN CmacOf(ContentIdsAt(content_info, x - 1)) ELSE CmacMissing]
        present == SelectSeq([x \in 1..n |-> x - 1], LAMBDA x : ContentIdsHas(content_info, x))
        installed_ids == SortIds([k \in 1..Len(present) |->
                                     IdBytes(ContentIdsAt(content_info, present[k]))])
    IN [header |-> ToLE(id, 4) \o ToLE(Len(ids_by_index), 4) \o ToLE(Len(installed_ids), 4)
                   \o ToLE(1, 4),
        ids_by_index |-> ids_by_index, installed_ids |-> installed_ids, cmacs |-> cmacs]

\* content IDs by content index 0..3: their order as integers is not that of
\* their little-endian bytes
CmdIdOf == <<3, 258, 2, 65536>>

\* the records of up to three of the contents 0..3, in every order
CmdContentInfos ==
    LET seqs == UNION {[1..n -> 0..3] : n \in 1..3}
        inj == {q \in seqs : \A i, j \in 1..Len(q) : q[i] = q[j] => i = j}
    IN {[i \in 1..Len(q) |-> Content(q[i], CmdIdOf[q[i] + 1], 256)] : q \in inj}

----------------------------------------------------------------------------
(* The blank save of start() *)

\* the exclusive or of two bytes
RECURSIVE BitXor(_, _)
BitXor(a, b) ==
    IF a = 0 /\ b = 0 THEN 0 ELSE ((a + b) % 2) + 2 * BitXor(a \div 2, b \div 2)

\* AES-CTR: the data xored with the keystream the keyslot and the counter give;
\* encrypt and decrypt are the same
CtrCrypt(keystream, data) == [i \in 1..Len(data) |-> BitXor(data[i], keystream[i])]

\* what the two o.write calls put into 00000001.sav
SaveFileDataAllEncrypted(save_size, keystream) == CtrCrypt(keystream, Rep(0, Max(32, save_size)))
SaveFileData(save_size, keystream) ==
    CtrCrypt(keystream, Rep(0, 32)) \o Rep(0, Max(0, save_size - 32))

\* keystreams of the SD keyslot for the path of a save, 64 bytes of each
KeyStreams == {[i \in 1..64 |-> (37 * i + 11) % 256], [i \in 1..64 |-> (5 * i * i + 200) % 256]}
SaveSizes == {1, 16, 31, 32, 33, 48, 64}

----------------------------------------------------------------------------
(* CIAReader.__init__: the content index of the archive header and the TMD *)

\* active_contents: bit 0x80 of byte 0 is content index 0
ActiveContentsLsbFirst(content_index) ==
    {i \in 0..(8 * Len(content_index) - 1) :
        (content_index[(i \div 8) + 1] \div (2 ^ (i % 8))) % 2 = 1}
ActiveContents(content_index) ==
    {i \in 0..(8 * Len(content_index) - 1) :
        (content_index[(i \div 8) + 1] \div (2 ^ (7 - (i % 8)))) % 2 = 1}

\* active_contents_tmd, self.content_info and the InvalidCIAError check
CiaContents(content_index, chunk_records) ==
    LET active_contents == ActiveContents(content_index)
        content_info == SelectSeq(chunk_records, LAMBDA record : record.cindex \in active_contents)
        active_contents_tmd == {content_info[i].cindex : i \in 1..Len(content_info)}
    IN IF (active_contents \ active_contents_tmd) \cup (active_contents_tmd \ active_contents) # {}
       THEN [ok |-> FALSE, err |-> "InvalidCIAError", content_info |-> <<>>]
       ELSE [ok |-> TRUE, err |-> "", content_info |-> content_info]

\* the first two bytes of the 0x2000-byte content index (the rest is zero)
CiaContentIndexes == {<<0, 0>>, <<128, 0>>, <<192, 0>>, <<160, 0>>, <<128, 128>>, <<1, 0>>, <<0, 64>>}
\* the chunk records of the TMD, by content index; two records may share one
CiaChunkIndexes == {<<>>, <<0>>, <<0, 1>>, <<1, 0>>, <<0, 2>>, <<0, 0>>, <<0, 1, 8>>, <<7>>, <<9, 0>>}
CiaChunkRecords == {[i \in 1..Len(q) |-> Content(q[i], 16 + i, 256)] : q \in CiaChunkIndexes}

----------------------------------------------------------------------------
(* pyctr.type.tmd: TitleMetadataReader.load and __bytes__ *)

\* readbe and readle of pyctr.util, and int.to_bytes(n, 'big')
readle(b) == FromLE(b)
readbe(b) == FromLE(Reverse(b))
ToBE(v, n) == Reverse(ToLE(v, n))

\* bytes.hex() as the sequence of the hex digits 0..15, and bytes.fromhex
Hex(b) == [i \in 1..(2 * Len(b)) |-> IF i % 2 = 1 THEN b[(i + 1) \div 2] \div 16 ELSE b[i \div 2] % 16]
FromHex(h) == [i \in 1..(Len(h) \div 2) |-> 16 * h[2 * i - 1] + h[2 * i]]

\* sha256(b).digest(): 32 bytes that depend on every byte of b and its place
RECURSIVE WeightedSum(_, _, _)
WeightedSum(b, lo, hi) ==
    IF lo > hi THEN 0
    ELSE IF lo = hi THEN ((lo % 251) + 1) * (b[lo] + 1)
    ELSE WeightedSum(b, lo, (lo + hi) \div 2) + WeightedSum(b, ((lo + hi) \div 2) + 1, hi)
sha256(b) == <<170>> \o ToBE(WeightedSum(b, 1, Len(b)), 4) \o Rep(0, 27)

CHUNK_RECORD_SIZE == 48

\* signature_types: sig-type -> (sig-size, padding)
signature_types ==
    (65536 :> <<512, 60>>) @@ (65537 :> <<256, 60>>) @@ (65538 :> <<60, 64>>) @@
    (65539 :> <<512, 60>>) @@ (65540 :> <<256, 60>>) @@ (65541 :> <<60, 64>>)

\* ContentTypeFlags.from_int and ContentTypeFlags.__index__
ContentTypeFlagsFromInt(flags) ==
    [encrypted |-> flags % 2, disc |-> (flags \div 2) % 2, cfm |-> (flags \div 4) % 2,
     optional |-> (flags \div 16384) % 2, shared |-> (flags \div 32768) % 2]
ContentTypeFlagsInt(t) ==
    t.encrypted + 2 * t.disc + 4 * t.cfm + 16384 * t.optional + 32768 * t.shared

\* TitleVersion.from_int and TitleVersion.__index__
TitleVersionFromInt(ver) ==
    [major |-> (ver \div 1024) % 64, minor |-> (ver \div 16) % 64, micro |-> ver % 16]
TitleVersionInt(v) == 1024 * v.major + 16 * v.minor + v.micro

\* ContentChunkRecord of a 0x30-byte slice, and ContentChunkRecord.__bytes__
ContentChunkRecord(cr_raw) ==
    [id |-> Hex(PySlice(cr_raw, 0, 4)), cindex |-> readbe(PySlice(cr_raw, 4, 6)),
     type |-> ContentTypeFlagsFromInt(readbe(PySlice(cr_raw, 6, 8))),
     size |-> readbe(PySlice(cr_raw, 8, 16)), hash |-> PySlice(cr_raw, 16, 48)]
ContentChunkRecordBytes(cr) ==
    FromHex(cr.id) \o ToBE(cr.cindex, 2) \o ToBE(ContentTypeFlagsInt(cr.type), 2)
        \o ToBE(cr.size, 8) \o cr.hash

\* ContentInfoRecord of a 0x24-byte slice, and ContentInfoRecord.__bytes__
ContentInfoRecord(ir_raw) ==
    [index_offset |-> readbe(PySlice(ir_raw, 0, 2)), command_count |-> readbe(PySlice(ir_raw, 2, 4)),
     hash |-> PySlice(ir_raw, 4, 36)]
ContentInfoRecordBytes(ir) == ToBE(ir.index_offset, 2) \o ToBE(ir.command_count, 2) \o ir.hash

\* str.rstrip('\0') on the decoded issuer
RECURSIVE RStripNul(_)
RStripNul(b) ==
    IF Len(b) > 0 /\ b[Len(b)] = 0 THEN RStripNul(SubSeq(b, 1, Len(b) - 1)) ELSE b

\* the loop of load over info_records when verify_hashes: the error it raises,
\* "" when it raises none
RECURSIVE VerifyInfoRecords(_, _, _, _)
VerifyInfoRecords(info_records, k, chunk_records, chunk_records_hashed) ==
    IF k > Len(info_records) THEN ""
    ELSE LET ir == info_records[k]
             to_hash == PySlice(chunk_records, ir.index_offset, ir.index_offset + ir.command_count)
         IN IF \E i \in 1..Len(to_hash) :
                   \/ to_hash[i] \in chunk_records_hashed
                   \/ \E j \in 1..(i - 1) : to_hash[j] = to_hash[i]
            THEN "InvalidTMDError"
            ELSE IF sha256(Concat([i \in 1..Len(to_hash) |-> ContentChunkRecordBytes(to_hash[i])]))
                        # ir.hash
            THEN "InvalidInfoRecordError"
            ELSE VerifyInfoRecords(info_records, k + 1, chunk_records,
                                   chunk_records_hashed \cup {to_hash[i] : i \in 1..Len(to_hash)})

TmdErr(e) == [ok |-> FALSE, err |-> e]

\* content_info_records_hash != real_hash.digest()
InfoRecordsHashInvalidNever(header, content_info_records_raw) == FALSE
InfoRecordsHashInvalid(header, content_info_records_raw) ==
    PySlice(header, 164, 196) # sha256(content_info_records_raw)

\* TitleMetadataReader.load(fp, verify_hashes) on a stream holding b
TmdLoad(b, verify_hashes) ==
    LET sig_type == readbe(PySlice(b, 0, 4))
    IN IF sig_type \notin DOMAIN signature_types THEN TmdErr("InvalidSignatureTypeError")
       ELSE
       LET sig_size == signature_types[sig_type][1]
           sig_padding == signature_types[sig_type][2]
           signature == PySlice(b, 4, 4 + sig_size)
           h == 4 + sig_size + sig_padding
           header == PySlice(b, h, h + 196)
           content_info_records_raw == PySlice(b, h + 196, h + 196 + 2304)
           content_count == readbe(PySlice(header, 158, 160))
           content_chunk_records_raw ==
               PySlice(b, h + 2500, h + 2500 + content_count * CHUNK_RECORD_SIZE)
           chunk_records ==
               [i \in 1..content_count |->
                   ContentChunkRecord(PySlice(content_chunk_records_raw, (i - 1) * CHUNK_RECORD_SIZE,
                                              i * CHUNK_RECORD_SIZE))]
           slots == [i \in 1..64 |-> PySlice(content_info_records_raw, (i - 1) * 36, i * 36)]
           filled == SelectSeq(slots, LAMBDA ir_raw : ir_raw # Rep(0, 36))
           info_records == [i \in 1..Len(filled) |-> ContentInfoRecord(filled[i])]
           verified == IF verify_hashes THEN VerifyInfoRecords(info_records, 1, chunk_records, {})
                       ELSE ""
       IN IF Len(header) # 196 THEN TmdErr("InvalidTMDError")
          ELSE IF Len(content_info_records_raw) # 2304 THEN TmdErr("InvalidTMDError")
          ELSE IF verify_hashes /\ InfoRecordsHashInvalid(header, content_info_records_raw)
          THEN TmdErr("InvalidHashError")
          ELSE IF verified # "" THEN TmdErr(verified)
          ELSE IF \E i \in 1..64 : header[i] >= 128 THEN TmdErr("UnicodeDecodeError")
          ELSE [ok |-> TRUE, err |-> "",
                title_id |-> Hex(PySlice(header, 76, 84)),
                save_size |-> readle(PySlice(header, 90, 94)),
                srl_save_size |-> readle(PySlice(header, 94, 98)),
                title_version |-> TitleVersionFromInt(readbe(PySlice(header, 156, 158))),
                info_records |-> info_records, chunk_records |-> chunk_records,
                content_count |-> Len(chunk_records),
                signature |-> <<sig_type, signature>>,
                u_issuer |-> RStripNul(PySlice(header, 0, 64)),
                u_version |-> PyAt(header, 64), u_ca_crl_version |-> PyAt(header, 65),
                u_signer_crl_version |-> PyAt(header, 66), u_reserved1 |-> PyAt(header, 67),
                u_system_version |-> PySlice(header, 68, 76), u_title_type |-> PySlice(header, 84, 88),
                u_group_id |-> PySlice(header, 88, 90), u_reserved2 |-> PySlice(header, 98, 102),
                u_srl_flag |-> PyAt(header, 102), u_reserved3 |-> PySlice(header, 103, 152),
                u_access_rights |-> PySlice(header, 152, 156), u_boot_count |-> PySlice(header, 160, 162),
                u_padding |-> PySlice(header, 162, 164),
                consumed |-> Len(PySlice(b, 0, h + 2500)) + Len(content_chunk_records_raw)]

\* struct.pack of an 's' field: n bytes, cut or filled with null bytes
PackS(b, n) == Ljust(PySlice(b, 0, n), n)

\* TitleMetadataReader.__bytes__; the 'b' fields of pack take -128..127
TmdBytes(tmd) ==
    LET sig_data == ToBE(tmd.signature[1], 4)
                        \o PackS(tmd.signature[2], signature_types[tmd.signature[1]][1])
                        \o Rep(0, signature_types[tmd.signature[1]][2])
        info_records ==
            Ljust(Concat([i \in 1..Len(tmd.info_records) |-> ContentInfoRecordBytes(tmd.info_records[i])]),
                  2304)
        header == PackS(tmd.u_issuer, 64)
                      \o <<tmd.u_version, tmd.u_ca_crl_version, tmd.u_signer_crl_version, tmd.u_reserved1>>
                      \o PackS(tmd.u_system_version, 8) \o PackS(FromHex(tmd.title_id), 8)
                      \o PackS(tmd.u_title_type, 4) \o PackS(tmd.u_group_id, 2)
                      \o ToBE(tmd.save_size, 4) \o ToBE(tmd.srl_save_size, 4)
                      \o PackS(tmd.u_reserved2, 4) \o <<tmd.u_srl_flag>> \o PackS(tmd.u_reserved3, 49)
                      \o PackS(tmd.u_access_rights, 4) \o ToBE(TitleVersionInt(tmd.title_version), 2)
                      \o ToBE(tmd.content_count, 2) \o PackS(tmd.u_boot_count, 2)
                      \o PackS(tmd.u_padding, 2) \o sha256(info_records)
        chunk_records ==
            Concat([i \in 1..Len(tmd.chunk_records) |-> ContentChunkRecordBytes(tmd.chunk_records[i])])
    IN IF \E v \in {tmd.u_version, tmd.u_ca_crl_version, tmd.u_signer_crl_version, tmd.u_reserved1,
                    tmd.u_srl_flag} : v > 127
       THEN [ok |-> FALSE, err |-> "struct.error", bytes |-> <<>>]
       ELSE [ok |-> TRUE, err |-> "", bytes |-> sig_data \o header \o info_records \o chunk_records]

\* b'Root-CA00000003-CP0000000b'
TmdIssuer ==
    <<82, 111, 111, 116, 45, 67, 65, 48, 48, 48, 48, 48, 48, 48, 51, 45, 67, 80, 48, 48, 48, 48, 48,
      48, 48, 98>>

\* the two chunk records of a TMD file, the second with the content type given
TmdFileChunks(type) ==
    <<0, 0, 0, 16>> \o <<0, 0>> \o <<0, 1>> \o <<0, 0, 0, 0, 0, 0, 1, 0>> \o Rep(17, 32)
        \o <<0, 0, 0, 17>> \o <<0, 1>> \o ToBE(type, 2) \o <<0, 0, 0, 0, 0, 0, 2, 0>> \o Rep(34, 32)

\* the Info Record region of a TMD file: one record for both chunk records,
\* in slot 0 or behind an empty slot
TmdFileInfo(chunks, empty_first) ==
    Ljust((IF empty_first THEN Rep(0, 36) ELSE <<>>) \o <<0, 0>> \o <<0, 2>> \o sha256(chunks), 2304)

\* a TMD file as title metadata is laid out (RSA_2048 SHA256 signature): v
\* gives the save size field, the version byte, the byte that fills the
\* padding of the signature, the place of the Info Record and a content type
TmdBinary(v) ==
    LET chunks == TmdFileChunks(v.type)
        info == TmdFileInfo(chunks, v.empty_first)
    IN <<0, 1, 0, 4>> \o Rep(255, 256) \o Rep(v.sig_padding, 60)
           \o Ljust(TmdIssuer, 64) \o <<v.version, 0, 0, 0>> \o Rep(0, 8)
           \o <<0, 4, 0, 0, 0, 9, 135, 0>> \o <<0, 0, 0, 64>> \o <<0, 0>>
           \o v.save_size \o Rep(0, 4) \o Rep(0, 4) \o <<0>> \o Rep(0, 49) \o Rep(0, 4)
           \o <<4, 16>> \o <<0, 2>> \o <<0, 0>> \o <<0, 0>> \o sha256(info)
           \o info \o chunks

TmdVariants ==
    [save_size : {<<0, 0, 0, 0>>, <<0, 0, 8, 0>>, <<0, 1, 1, 0>>}, version : {1, 200},
     sig_padding : {0, 7}, empty_first : BOOLEAN, type : {1, 9}]

\* where the hash of the Info Record and the hash of the header are in TmdBinary(v)
TmdInfoHashAt(v) == 320 + 196 + (IF v.empty_first THEN 36 ELSE 0) + 4
TmdHeaderHashAt == 320 + 164

\* b with the bits of mask flipped in the byte at offset at
FlipByte(b, at, mask) == [b EXCEPT ![at + 1] = BitXor(@, mask)]

\* b with the hash of the header computed again over the Info Record region
Rehash(b) ==
    SubSeq(b, 1, TmdHeaderHashAt) \o sha256(PySlice(b, 516, 516 + 2304))
        \o SubSeq(b, TmdHeaderHashAt + 33, Len(b))

\* the byte of the hash that is flipped, and the bits flipped in it
FlipOffsets == {0, 4, 31}
FlipMasks == {1, 255}

\* the TMD files load is given: files as laid out, files with one byte of the
\* Info Record hash flipped, the same with the header hash computed again, a
\* file with an unknown signature type and a file cut short
TmdInputs ==
    {[made |-> "valid", v |-> v, bytes |-> TmdBinary(v)] : v \in TmdVariants}
    \cup {[made |-> "info hash flipped", v |-> v,
           bytes |-> FlipByte(TmdBinary(v), TmdInfoHashAt(v) + o, m)] :
             v \in {w \in TmdVariants : w.version = 1 /\ w.sig_padding = 0 /\ w.type = 1},
             o \in FlipOffsets, m \in FlipMasks}
    \cup {[made |-> "info hash flipped, header hash computed again", v |-> v,
           bytes |-> Rehash(FlipByte(TmdBinary(v), TmdInfoHashAt(v) + o, m))] :
             v \in {w \in TmdVariants : w.version = 1 /\ w.sig_padding = 0 /\ w.type = 1},
             o \in FlipOffsets, m \in FlipMasks}
    \cup {[made |-> "unknown signature type", v |-> v, bytes |-> FlipByte(TmdBinary(v), 3, 12)] :
             v \in {w \in TmdVariants : w.save_size = <<0, 0, 0, 0>> /\ w.version = 1 /\ w.type = 1}}
    \cup {[made |-> "cut short", v |-> v, bytes |-> SubSeq(TmdBinary(v), 1, 500)] :
             v \in {w \in TmdVariants : w.save_size = <<0, 0, 0, 0>> /\ w.version = 1 /\ w.type = 1}}

----------------------------------------------------------------------------
(* pyctr/crypto.py: the keyslots of a CryptoEngine. A key that Python keeps
   as a 128-bit int is the tuple of its 16 bytes, most significant first. *)

\* Keyslot
KeyslotTWLNAND == 3
KeyslotNCCH93 == 24
KeyslotNCCH96 == 27
KeyslotNCCH70 == 37
KeyslotNCCH == 44
KeyslotCMACSDNAND == 48
KeyslotDSiWareExport == 58
KeyslotCommonKey == 61
KeyslotDecryptedTitlekey == 64

DEV_COMMON_KEY_0 == <<85, 163, 248, 114, 189, 200, 12, 85, 90, 101, 67, 129, 19, 158, 21, 59>>

\* common_key_y, by common key index
common_key_y == <<
    <<208, 123, 51, 127, 156, 164, 56, 89, 50, 162, 226, 87, 35, 35, 46, 185>>,
    <<12, 118, 114, 48, 240, 153, 143, 28, 70, 130, 130, 2, 250, 172, 190, 76>>,
    <<196, 117, 203, 58, 184, 199, 136, 187, 87, 94, 18, 161, 9, 7, 184, 164>>,
    <<228, 134, 238, 227, 208, 192, 156, 144, 47, 102, 134, 212, 192, 111, 100, 159>>,
    <<237, 49, 186, 156, 4, 176, 103, 80, 108, 68, 151, 163, 91, 120, 4, 252>>,
    <<94, 102, 153, 138, 180, 232, 147, 22, 6, 133, 15, 215, 161, 109, 215, 85>>>>

\* base_key_x[keyslot][dev]
base_key_x == [k \in {24, 27, 37} |->
    IF k = 24 THEN <<<<130, 233, 201, 190, 191, 184, 189, 184, 117, 236, 192, 160, 125, 71, 67, 116>>,
                     <<48, 75, 241, 70, 131, 114, 238, 100, 17, 94, 189, 64, 147, 216, 66, 118>>>>
    ELSE IF k = 27 THEN <<<<69, 173, 4, 149, 57, 146, 199, 200, 147, 114, 74, 154, 123, 206, 97, 130>>,
                          <<108, 139, 41, 68, 160, 114, 96, 53, 249, 65, 223, 192, 24, 82, 79, 182>>>>
    ELSE <<<<206, 231, 216, 171, 48, 192, 13, 174, 133, 14, 245, 227, 130, 172, 90, 243>>,
           <<129, 144, 122, 75, 111, 27, 71, 50, 58, 103, 121, 116, 206, 74, 215, 27>>>>]

\* dict.update
DictUpdate(d, e) == [x \in (DOMAIN d) \cup (DOMAIN e) |-> IF x \in DOMAIN e THEN e[x] ELSE d[x]]

\* rol(val, r_bits, 128), a ^ b and (a + b) mod 2^128 on 128-bit values
rol(val, r_bits) ==
    LET v == SubSeq(val, 1, 16)
        q == (r_bits % 128) \div 8
        s == (r_bits % 128) % 8
    IN  [i \in 1..16 |-> ((v[((i - 1 + q) % 16) + 1] * (2 ^ s)) % 256)
                          + (v[((i + q) % 16) + 1] \div (2 ^ (8 - s)))]
Xor128(a, b) == LET x == SubSeq(a, 1, 16) y == SubSeq(b, 1, 16) IN [i \in 1..16 |-> BitXor(x[i], y[i])]
RECURSIVE Carry128(_, _, _)
Carry128(a, b, i) == IF i = 16 THEN 0 ELSE (a[i + 1] + b[i + 1] + Carry128(a, b, i + 1)) \div 256
Add128(a, b) == LET x == SubSeq(a, 1, 16) y == SubSeq(b, 1, 16) IN [i \in 1..16 |-> (x[i] + y[i] + Carry128(x, y, i)) % 256]

\* the 3DS and the DSi AES key scrambler
keygen_manual(key_x, key_y) ==
    rol(Add128(Xor128(rol(key_x, 2), key_y), <<31, 249, 233, 170, 197, 254, 4, 8, 2, 69, 145, 220, 93, 82, 118, 138>>), 87)
keygen_twl_manual(key_x, key_y) ==
    rol(Add128(Xor128(key_x, key_y), <<255, 254, 251, 78, 41, 89, 2, 88, 42, 104, 15, 95, 26, 79, 62, 121>>), 42)

\* CryptoEngine.keygen(keyslot); KeyError when the slot lacks KeyX or KeyY
HasXY(e, keyslot) == keyslot \in DOMAIN e.key_x /\ keyslot \in DOMAIN e.key_y
keygen(e, keyslot) ==
    IF keyslot < 4 THEN keygen_twl_manual(e.key_x[keyslot], e.key_y[keyslot])
    ELSE keygen_manual(e.key_x[keyslot], e.key_y[keyslot])

\* CryptoEngine(dev=dev, setup_b9_keys=False)
CryptoEngine(dev) ==
    [key_x |-> [k \in {24, 27, 37} |-> base_key_x[k][dev + 1]],
     key_y |-> [k \in {3, 5} |-> IF k = 3 THEN <<225, 160, 0, 5, 32, 45, 221, 29, 189, 77, 196, 211, 10, 185, 220, 118>>
                                 ELSE <<77, 128, 79, 78, 153, 144, 25, 70, 19, 162, 4, 172, 88, 68, 96, 190>>],
     key_normal |-> EmptyDict,
     dev |-> dev,
     b9_keys_set |-> FALSE,
     otp_key |-> <<>>, otp_iv |-> <<>>, b9_extdata_otp |-> <<>>, b9_extdata_keygen |-> <<>>,
     id0 |-> <<>>]

\* int.from_bytes(key, 'big' if keyslot > 0x03 else 'little')
KeyFromBytes(keyslot, key) == IF keyslot > 3 THEN key ELSE Reverse(key)

\* set_keyslot(xy, keyslot, key) with an int key: the key is stored, and the
\* normal key regenerated when the slot has both halves
set_keyslot(e, xy, keyslot, key) ==
    LET to_use == IF xy = "x" THEN [e EXCEPT !.key_x = DictSet(e.key_x, keyslot, key)]
                  ELSE [e EXCEPT !.key_y = DictSet(e.key_y, keyslot, key)]
    IN  IF HasXY(to_use, keyslot)
        THEN [to_use EXCEPT !.key_normal = DictSet(to_use.key_normal, keyslot, keygen(to_use, keyslot))]
        ELSE to_use

\* set_normal_key(keyslot, key)
set_normal_key(e, keyslot, key) == [e EXCEPT !.key_normal = DictSet(e.key_normal, keyslot, key)]

\* the module-level cache _b9_key_x, _b9_key_y, _b9_key_normal, _otp_key,
\* _otp_iv, _b9_extdata_otp, _b9_extdata_keygen before any ingestion
EmptyB9Global ==
    [key_x |-> EmptyDict, key_y |-> EmptyDict, key_normal |-> EmptyDict,
     otp_key |-> <<>>, otp_iv |-> <<>>, b9_extdata_otp |-> <<>>, b9_extdata_keygen |-> <<>>]

\* the byte of the protected ARM9 bootROM at an offset, and b9[base + a:base + b]
Boot9Byte(off) == (off * 7 + (off \div 256)) % 256
B9Slice(base, a, b) == [i \in 1..(b - a) |-> Boot9Byte(base + a + i - 1)]
\* a longer piece b9[base + a:base + b], told by where it lies
B9Blob(base, a, b) == <<base + a, base + b>>
keyblob_offset(dev) == IF dev # 0 THEN 22624 + 1024 ELSE 22624
otp_key_offset(dev) == IF dev # 0 THEN 22240 + 32 ELSE 22240

\* where in the keyblob the KeyX and the KeyY of a keyslot lie
B9KeyXOffset(keyslot) == IF keyslot < 60 THEN 368 + 16 * ((keyslot - 44) \div 4) ELSE 432 + 16 * (keyslot - 60)
B9KeyYOffset(keyslot) == IF keyslot = 4 THEN 496 ELSE 528 + 16 * (keyslot - 6)
B9KeyXSlots == 44..62
B9KeyYSlots == {4} \cup (6..11)
B9KeyYSlotSeq == <<4, 6, 7, 8, 9, 10, 11>>

\* the stores of setup_keys_from_boot9 into the cache, in program order
B9Writes(dev) ==
    <<[f |-> "otp_key", k |-> 0, v |-> B9Slice(otp_key_offset(dev), 0, 16)],
      [f |-> "otp_iv", k |-> 0, v |-> B9Slice(otp_key_offset(dev), 16, 32)],
      [f |-> "b9_extdata_keygen", k |-> 0, v |-> B9Blob(keyblob_offset(dev), 0, 512)],
      [f |-> "b9_extdata_otp", k |-> 0, v |-> B9Blob(keyblob_offset(dev), 0, 36)]>>
    \o [i \in 1..19 |-> [f |-> "key_x", k |-> 43 + i,
                         v |-> B9Slice(keyblob_offset(dev), B9KeyXOffset(43 + i), B9KeyXOffset(43 + i) + 16)]]
    \o [i \in 1..7 |-> [f |-> "key_y", k |-> B9KeyYSlotSeq[i],
                        v |-> B9Slice(keyblob_offset(dev), B9KeyYOffset(B9KeyYSlotSeq[i]),
                                      B9KeyYOffset(B9KeyYSlotSeq[i]) + 16)]]
    \o <<[f |-> "key_normal", k |-> 13, v |-> B9Slice(keyblob_offset(dev), 624, 640)]>>

B9WritesByDev == <<B9Writes(0), B9Writes(1)>>

B9Store(g, w) ==
    CASE w.f = "otp_key" -> [g EXCEPT !.otp_key = w.v]
      [] w.f = "otp_iv" -> [g EXCEPT !.otp_iv = w.v]
      [] w.f = "b9_extdata_keygen" -> [g EXCEPT !.b9_extdata_keygen = w.v]
      [] w.f = "b9_extdata_otp" -> [g EXCEPT !.b9_extdata_otp = w.v]
      [] w.f = "key_x" -> [g EXCEPT !.key_x = DictSet(@, w.k, w.v)]
      [] w.f = "key_y" -> [g EXCEPT !.key_y = DictSet(@, w.k, w.v)]
      [] OTHER -> [g EXCEPT !.key_normal = DictSet(@, w.k, w.v)]

RECURSIVE B9StoreAll(_, _, _)
B9StoreAll(g, ws, n) == IF n = 0 THEN g ELSE B9Store(B9StoreAll(g, ws, n - 1), ws[n])

\* the cache after a whole ingestion by a retail and by a dev engine
B9CompleteByDev == <<B9StoreAll(EmptyB9Global, B9WritesByDev[1], Len(B9WritesByDev[1])),
                     B9StoreAll(EmptyB9Global, B9WritesByDev[2], Len(B9WritesByDev[2]))>>
B9Complete(dev) == B9CompleteByDev[dev + 1]

\* _copy_global_keys()
copy_global_keys(e, g) ==
    [e EXCEPT !.key_x = DictUpdate(e.key_x, g.key_x),
              !.key_y = DictUpdate(e.key_y, g.key_y),
              !.key_normal = DictUpdate(e.key_normal, g.key_normal),
              !.otp_key = g.otp_key, !.otp_iv = g.otp_iv,
              !.b9_extdata_otp = g.b9_extdata_otp, !.b9_extdata_keygen = g.b9_extdata_keygen,
              !.b9_keys_set = TRUE]

\* setup_keys_from_boot9(b9) run by one thread alone; b9 is a dump of b9.len
\* bytes whose sha256 is BOOT9_PROT_HASH or not
KeysOk(e, g) == [engine |-> e, global |-> g, err |-> ""]
KeysErr(e, g, err) == [engine |-> e, global |-> g, err |-> err]
setup_keys_from_boot9(e, g, b9) ==
    IF e.b9_keys_set THEN KeysOk(e, g)
    ELSE IF g.key_x # EmptyDict THEN KeysOk(copy_global_keys(e, g), g)
    ELSE IF b9.len # 32768 THEN KeysErr(e, g, "CorruptBootromError")
    ELSE IF ~b9.hash_ok THEN KeysErr(e, g, "CorruptBootromError")
    ELSE KeysOk(copy_global_keys(e, B9Complete(e.dev)), B9Complete(e.dev))

\* setup_keys_from_boot9_file(path): the file is of b9.len bytes
setup_keys_from_boot9_file(e, g, b9) ==
    IF e.b9_keys_set THEN KeysOk(e, g)
    ELSE IF g.key_x # EmptyDict THEN KeysOk(copy_global_keys(e, g), g)
    ELSE IF b9.len \in {32768, 65536} THEN setup_keys_from_boot9(e, g, [b9 EXCEPT !.len = 32768])
    ELSE KeysErr(e, g, "BootromNotFoundError")

\* pack('>IIII', *unpack('<IIII', sha256(key).digest()[0:16]))
Id0Of(key) ==
    LET key_hash == PySlice(sha256(key), 0, 16)
    IN  [i \in 1..16 |-> key_hash[4 * ((i - 1) \div 4) + (4 - ((i - 1) % 4))]]

\* setup_sd_key(data)
setup_sd_key(e, data) ==
    IF Len(data) \notin {16, 288, 320} THEN [engine |-> e, err |-> "BadMovableSedError"]
    ELSE LET key == IF Len(data) = 16 THEN data ELSE PySlice(data, 272, 288)
             k == KeyFromBytes(KeyslotSD, key)
         IN  [engine |-> [set_keyslot(set_keyslot(set_keyslot(e, "y", KeyslotSD, k),
                                                  "y", KeyslotCMACSDNAND, k),
                                      "y", KeyslotDSiWareExport, k)
                          EXCEPT !.id0 = Id0Of(key)],
              err |-> ""]

\* setup_sd_key_from_file(path): f.read(0x140)
setup_sd_key_from_file(e, file) == setup_sd_key(e, PySlice(file, 0, 320))

\* AES on one block: a keyed permutation of the 16-byte blocks and its inverse
AesEncryptBlock(key, p) == [i \in 1..16 |-> (p[(i % 16) + 1] + key[i] + i) % 256]
AesDecryptBlock(key, c) ==
    [j \in 1..16 |-> LET i == ((j + 14) % 16) + 1 IN (c[i] + 512 - key[i] - i) % 256]

\* AES-CBC over whole blocks: P_b = D(C_b) xor C_(b-1), with C_(-1) the IV
CbcDecrypt(key, iv, data) ==
    [i \in 1..Len(data) |->
        LET b == (i - 1) \div 16
            r == ((i - 1) % 16) + 1
        IN  BitXor(AesDecryptBlock(key, SubSeq(data, 16 * b + 1, 16 * b + 16))[r],
                   IF b = 0 THEN iv[r] ELSE data[16 * (b - 1) + r])]
CbcEncryptBlock(key, prev, p) == AesEncryptBlock(key, [r \in 1..16 |-> BitXor(p[r], prev[r])])
RECURSIVE CbcEncrypt(_, _, _)
CbcEncrypt(key, iv, data) ==
    IF Len(data) = 0 THEN <<>>
    ELSE LET c == CbcEncryptBlock(key, iv, SubSeq(data, 1, 16))
         IN  c \o CbcEncrypt(key, c, SubSeq(data, 17, Len(data)))

\* load_from_ticket(ticket)
load_from_ticket(e, ticket) ==
    IF Len(ticket) < 684 THEN [engine |-> e, err |-> "TicketLengthError"]
    ELSE LET titlekey_enc == PySlice(ticket, 447, 463)
             title_id == PySlice(ticket, 476, 484)
             common_key_index == PyAt(ticket, 497)
         IN  IF ~(e.dev # 0 /\ common_key_index = 0) /\ common_key_index >= Len(common_key_y)
             THEN [engine |-> e, err |-> "IndexError"]
             ELSE LET c == IF e.dev # 0 /\ common_key_index = 0
                           THEN set_normal_key(e, KeyslotCommonKey, DEV_COMMON_KEY_0)
                           ELSE set_keyslot(e, "y", KeyslotCommonKey, common_key_y[common_key_index + 1])
                  IN  IF KeyslotCommonKey \notin DOMAIN c.key_normal
                      THEN [engine |-> c, err |-> "KeyslotMissingError"]
                      ELSE [engine |-> set_normal_key(c, KeyslotDecryptedTitlekey,
                                          CbcDecrypt(c.key_normal[KeyslotCommonKey],
                                                     title_id \o Rep(0, 8), titlekey_enc)),
                            err |-> ""]

\* a ticket of len bytes with these fields
TicketBytes(titlekey_enc, title_id, common_key_index, len) ==
    [i \in 1..len |-> IF i \in 448..463 THEN titlekey_enc[i - 447]
                      ELSE IF i \in 477..484 THEN title_id[i - 476]
                      ELSE IF i = 498 THEN common_key_index
                      ELSE 0]

----------------------------------------------------------------------------
(* One CryptoEngine and the calls that write its keyslots, in any order *)

MaxCalls == 2

\* the keyslots written directly: a DSi slot with a KeyY from the start, a slot
\* with a KeyX from the start and the common key slot
KeySlotsTried == {KeyslotTWLNAND, KeyslotNCCH70, KeyslotCommonKey}
KeysTried == {[i \in 1..16 |-> 16 * i - 1], [i \in 1..16 |-> 3 * i]}

\* movable.sed contents of the lengths tried
MovableSed(n) == [i \in 1..n |-> (i * 5 + 1) % 256]
MovableSedLengths == {0, 16, 17, 288, 320, 321}

\* bootROM dumps: right, wrong hash, the full 64 KiB dump, wrong length
Boot9Dumps == {[len |-> 32768, hash_ok |-> TRUE], [len |-> 32768, hash_ok |-> FALSE],
               [len |-> 65536, hash_ok |-> TRUE], [len |-> 32767, hash_ok |-> FALSE]}

Tickets == {TicketBytes([i \in 1..16 |-> 7 * i], <<0, 4, 0, 0, 0, 17, 34, 0>>, c, n) :
                c \in {0, 1}, n \in {848}}
           \cup {TicketBytes([i \in 1..16 |-> 7 * i], <<0, 4, 0, 0, 0, 17, 34, 0>>, 0, 600)}

InitKeys ==
    /\ InstallIdle
    /\ CfIdle
    /\ fn_pc = "keys"
    /\ fn_in = <<>>
    /\ fn_out = <<>>
    /\ \E dev \in {0, 1} : engines = <<CryptoEngine(dev)>>
    /\ b9_global \in {EmptyB9Global, B9Complete(0)}
    /\ threads = <<>>
    /\ handle = <<>>
    /\ calls = 0
    /\ files = <<>>

KeysCall(op, e, g, err) ==
    /\ fn_in' = op
    /\ fn_out' = err
    /\ engines' = <<e>>
    /\ b9_global' = g
    /\ calls' = calls + 1
    /\ UNCHANGED <<installv, cfv, fn_pc, threads, handle, files>>

\* engine.set_keyslot(xy, keyslot, key) with a bytes key
KeysSetKeyslot ==
    /\ fn_pc = "keys" /\ calls < MaxCalls
    /\ \E xy \in {"x", "y"}, keyslot \in KeySlotsTried, key \in KeysTried :
          KeysCall([op |-> "set_keyslot", xy |-> xy, keyslot |-> keyslot, key |-> key],
                   set_keyslot(engines[1], xy, keyslot, KeyFromBytes(keyslot, key)), b9_global, "")

\* engine.set_normal_key(keyslot, key)
KeysSetNormalKey ==
    /\ fn_pc = "keys" /\ calls < MaxCalls
    /\ \E keyslot \in KeySlotsTried, key \in KeysTried :
          KeysCall([op |-> "set_normal_key", keyslot |-> keyslot, key |-> key],
                   set_normal_key(engines[1], keyslot, key), b9_global, "")

\* engine.setup_keys_from_boot9(b9) and engine.setup_keys_from_boot9_file(path)
KeysSetupBoot9 ==
    /\ fn_pc = "keys" /\ calls < MaxCalls
    /\ \E b9 \in Boot9Dumps, via \in {"bytes", "file"} :
          LET r == IF via = "bytes" THEN setup_keys_from_boot9(engines[1], b9_global, b9)
                   ELSE setup_keys_from_boot9_file(engines[1], b9_global, b9)
          IN  KeysCall([op |-> "setup_keys_from_boot9", via |-> via, b9 |-> b9], r.engine, r.global, r.err)

\* engine.setup_sd_key(data) and engine.setup_sd_key_from_file(path)
KeysSetupSdKey ==
    /\ fn_pc = "keys" /\ calls < MaxCalls
    /\ \E n \in MovableSedLengths, via \in {"bytes", "file"} :
          LET r == IF via = "bytes" THEN setup_sd_key(engines[1], MovableSed(n))
                   ELSE setup_sd_key_from_file(engines[1], MovableSed(n))
          IN  KeysCall([op |-> "setup_sd_key", via |-> via, len |-> n], r.engine, b9_global, r.err)

\* engine.load_from_ticket(ticket)
KeysLoadFromTicket ==
    /\ fn_pc = "keys" /\ calls < MaxCalls
    /\ \E ticket \in Tickets :
          LET r == load_from_ticket(engines[1], ticket)
          IN  KeysCall([op |-> "load_from_ticket", len |-> Len(ticket), common_key_index |-> ticket[498]],
                       r.engine, b9_global, r.err)

NextKeys == KeysSetKeyslot \/ KeysSetNormalKey \/ KeysSetupBoot9 \/ KeysSetupSdKey \/ KeysLoadFromTicket

SpecKeys == InitKeys /\ [][NextKeys]_vars

----------------------------------------------------------------------------
(* Two threads that each construct a CryptoEngine, one statement at a time:
   setup_keys_from_boot9_file and setup_keys_from_boot9 on the shared cache *)

Boot9Threads == {1, 2}

Boot9Thread(via, b9) == [pc |-> IF via = "file" THEN "file_guard" ELSE "guard", w |-> 1, b9 |-> b9, err |-> ""]

InitBoot9 ==
    /\ InstallIdle
    /\ CfIdle
    /\ fn_pc = "boot9"
    /\ fn_in = <<>>
    /\ fn_out = <<>>
    /\ \E dev \in {0, 1} : engines = <<CryptoEngine(dev), CryptoEngine(dev)>>
    /\ b9_global = EmptyB9Global
    /\ threads \in [Boot9Threads -> {Boot9Thread(via, b9) : via \in {"bytes", "file"},
                                                           b9 \in Boot9Dumps \ {[len |-> 65536, hash_ok |-> TRUE]}}
                                    \cup {Boot9Thread("file", [len |-> 65536, hash_ok |-> TRUE])}]
    /\ handle = <<>>
    /\ calls = 0
    /\ files = <<>>

Boot9Goto(t, pc2) == threads' = [threads EXCEPT ![t].pc = pc2]
Boot9Same == UNCHANGED <<installv, cfv, fnv, handle, calls, files>>

\* setup_keys_from_boot9_file: if self.b9_keys_set: return; if _b9_key_x: copy
B9FileGuard ==
    \E t \in Boot9Threads :
        /\ fn_pc = "boot9" /\ threads[t].pc = "file_guard"
        /\ Boot9Goto(t, IF engines[t].b9_keys_set THEN "done"
                        ELSE IF b9_global.key_x # EmptyDict THEN "copy_x"
                        ELSE "file_size")
        /\ UNCHANGED <<engines, b9_global>> /\ Boot9Same

\* ... b9_size = getsize(p); if b9_size in {0x8000, 0x10000}: f.read(0x8000)
B9FileSize ==
    \E t \in Boot9Threads :
        /\ fn_pc = "boot9" /\ threads[t].pc = "file_size"
        /\ threads' = [threads EXCEPT ![t] =
               IF threads[t].b9.len \in {32768, 65536}
               THEN [@ EXCEPT !.pc = "guard", !.b9.len = 32768]
               ELSE [@ EXCEPT !.pc = "failed", !.err = "BootromNotFoundError"]]
        /\ UNCHANGED <<engines, b9_global>> /\ Boot9Same

\* setup_keys_from_boot9: if self.b9_keys_set: return; if _b9_key_x: copy
B9Guard ==
    \E t \in Boot9Threads :
        /\ fn_pc = "boot9" /\ threads[t].pc = "guard"
        /\ Boot9Goto(t, IF engines[t].b9_keys_set THEN "done"
                        ELSE IF b9_global.key_x # EmptyDict THEN "copy_x"
                        ELSE "validate")
        /\ UNCHANGED <<engines, b9_global>> /\ Boot9Same

\* the length and the hash of the dump
B9Validate ==
    \E t \in Boot9Threads :
        /\ fn_pc = "boot9" /\ threads[t].pc = "validate"
        /\ threads' = [threads EXCEPT ![t] =
               IF threads[t].b9.len # 32768 \/ ~threads[t].b9.hash_ok
               THEN [@ EXCEPT !.pc = "failed", !.err = "CorruptBootromError"]
               ELSE [@ EXCEPT !.pc = "write", !.w = 1]]
        /\ UNCHANGED <<engines, b9_global>> /\ Boot9Same

\* one store into the cache
B9Write ==
    \E t \in Boot9Threads :
        /\ fn_pc = "boot9" /\ threads[t].pc = "write"
        /\ LET ws == B9WritesByDev[engines[t].dev + 1]
           IN  /\ b9_global' = B9Store(b9_global, ws[threads[t].w])
               /\ threads' = [threads EXCEPT ![t] =
                      IF threads[t].w = Len(ws) THEN [@ EXCEPT !.pc = "copy_x"]
                      ELSE [@ EXCEPT !.w = @ + 1]]
        /\ UNCHANGED engines /\ Boot9Same

\* _copy_global_keys, statement by statement
B9CopyX ==
    \E t \in Boot9Threads :
        /\ fn_pc = "boot9" /\ threads[t].pc = "copy_x"
        /\ engines' = [engines EXCEPT ![t].key_x = DictUpdate(@, b9_global.key_x)]
        /\ Boot9Goto(t, "copy_y")
        /\ UNCHANGED b9_global /\ Boot9Same

B9CopyY ==
    \E t \in Boot9Threads :
        /\ fn_pc = "boot9" /\ threads[t].pc = "copy_y"
        /\ engines' = [engines EXCEPT ![t].key_y = DictUpdate(@, b9_global.key_y)]
        /\ Boot9Goto(t, "copy_normal")
        /\ UNCHANGED b9_global /\ Boot9Same

B9CopyNormal ==
    \E t \in Boot9Threads :
        /\ fn_pc = "boot9" /\ threads[t].pc = "copy_normal"
        /\ engines' = [engines EXCEPT ![t].key_normal = DictUpdate(@, b9_global.key_normal)]
        /\ Boot9Goto(t, "copy_rest")
        /\ UNCHANGED b9_global /\ Boot9Same

B9CopyRest ==
    \E t \in Boot9Threads :
        /\ fn_pc = "boot9" /\ threads[t].pc = "copy_rest"
        /\ engines' = [engines EXCEPT ![t].otp_key = b9_global.otp_key, ![t].otp_iv = b9_global.otp_iv,
                                      ![t].b9_extdata_otp = b9_global.b9_extdata_otp,
                                      ![t].b9_extdata_keygen = b9_global.b9_extdata_keygen]
        /\ Boot9Goto(t, "set_flag")
        /\ UNCHANGED b9_global /\ Boot9Same

B9SetFlag ==
    \E t \in Boot9Threads :
        /\ fn_pc = "boot9" /\ threads[t].pc = "set_flag"
        /\ engines' = [engines EXCEPT ![t].b9_keys_set = TRUE]
        /\ Boot9Goto(t, "done")
        /\ UNCHANGED b9_global /\ Boot9Same

NextBoot9 ==
    \/ B9FileGuard \/ B9FileSize \/ B9Guard \/ B9Validate \/ B9Write
    \/ B9CopyX \/ B9CopyY \/ B9CopyNormal \/ B9CopyRest \/ B9SetFlag

SpecBoot9 == InitBoot9 /\ [][NextBoot9]_vars

----------------------------------------------------------------------------
(* pyctr/types/ncch.py: NCCHReader *)

NCCH_MEDIA_UNIT == 512

\* NCCHSection
ExtendedHeader == 1
ExeFS == 2
RomFS == 3
NcchHeader == 4
Logo == 5
Plain == 6
FullDecrypted == 7
Raw == 8
NO_ENCRYPTION == {NcchHeader, Logo, Plain, Raw}

\* extra_cryptoflags
extra_cryptoflags(crypto_method) ==
    CASE crypto_method = 0 -> KeyslotNCCH
      [] crypto_method = 1 -> KeyslotNCCH70
      [] crypto_method = 10 -> KeyslotNCCH93
      [] crypto_method = 11 -> KeyslotNCCH96

\* the first 0x200 bytes of an NCCH with these fields; f.units[s] is the pair of
\* the first media unit and the number of media units of section s
NcchHeaderBytes(f) ==
    LET le4(v) == ToLE(v, 4)
        put == [p \in 0..511 |->
                  IF p < 16 THEN f.key_y[p + 1]
                  ELSE IF p \in 256..259 THEN <<78, 67, 67, 72>>[p - 255]
                  ELSE IF p \in 260..263 THEN le4(f.content_units)[p - 259]
                  ELSE IF p \in 264..271 THEN f.partition_id[p - 263]
                  ELSE IF p \in 276..279 THEN f.seed_verify[p - 275]
                  ELSE IF p \in 280..287 THEN f.program_id[p - 279]
                  ELSE IF p \in 336..351 THEN <<67, 84, 82, 45, 80, 45, 67, 84, 65, 80, 0, 0, 0, 0, 0, 0>>[p - 335]
                  ELSE IF p \in 384..387 THEN le4(f.extheader_size)[p - 383]
                  ELSE IF p = 395 THEN f.crypto_method
                  ELSE IF p = 399 THEN f.flags7
                  ELSE IF p \in 400..403 THEN le4(f.units[Plain][1])[p - 399]
                  ELSE IF p \in 404..407 THEN le4(f.units[Plain][2])[p - 403]
                  ELSE IF p \in 408..411 THEN le4(f.units[Logo][1])[p - 407]
                  ELSE IF p \in 412..415 THEN le4(f.units[Logo][2])[p - 411]
                  ELSE IF p \in 416..419 THEN le4(f.units[ExeFS][1])[p - 415]
                  ELSE IF p \in 420..423 THEN le4(f.units[ExeFS][2])[p - 419]
                  ELSE IF p \in 432..435 THEN le4(f.units[RomFS][1])[p - 431]
                  ELSE IF p \in 436..439 THEN le4(f.units[RomFS][2])[p - 435]
                  ELSE (p * 3) % 256]
    IN  [i \in 1..512 |-> put[i - 1]]

\* NCCHRegion; the IV partition_id << 64 | section << 56 is told by its section
NCCHRegion(section, starting_unit, units) ==
    [section |-> section, offset |-> starting_unit * NCCH_MEDIA_UNIT, size |-> units * NCCH_MEDIA_UNIT,
     end |-> (starting_unit + units) * NCCH_MEDIA_UNIT, iv |-> section]

\* the seeded KeyY of setup_seed
SeededKeyY(key_y, seed) == PySlice(sha256(key_y \o seed), 0, 16)
SeedVerify(seed, program_id) == PySlice(sha256(seed \o program_id), 0, 4)

\* NCCHReader.__init__ up to load_sections, on the header read from fp and the
\* seed found in seeddb.bin; crypto is the engine of the reader
NCCHReader(crypto, header, seed) ==
    LET flags_raw == PySlice(header, 392, 400)
        flags == [crypto_method |-> flags_raw[4],
                  executable |-> (flags_raw[6] \div 2) % 2 = 1,
                  fixed_crypto_key |-> flags_raw[8] % 2 = 1,
                  no_romfs |-> (flags_raw[8] \div 2) % 2 = 1,
                  no_crypto |-> (flags_raw[8] \div 4) % 2 = 1,
                  uses_seed |-> (flags_raw[8] \div 32) % 2 = 1]
        key_y == PySlice(header, 0, 16)
        content_units == readle(PySlice(header, 260, 264))
        program_id == PySlice(header, 280, 288)
        all_sections ==
            [s \in 1..8 |->
                CASE s = NcchHeader -> NCCHRegion(s, 0, 1)
                  [] s = FullDecrypted -> NCCHRegion(s, 0, content_units)
                  [] s = Raw -> NCCHRegion(s, 0, content_units)
                  [] s = ExtendedHeader -> IF readle(PySlice(header, 384, 388)) = 1024
                                           THEN NCCHRegion(s, 1, 4) ELSE NCCHRegion(s, 0, 0)
                  [] s = Logo -> NCCHRegion(s, readle(PySlice(header, 408, 412)), readle(PySlice(header, 412, 416)))
                  [] s = Plain -> NCCHRegion(s, readle(PySlice(header, 400, 404)), readle(PySlice(header, 404, 408)))
                  [] s = ExeFS -> NCCHRegion(s, readle(PySlice(header, 416, 420)), readle(PySlice(header, 420, 424)))
                  [] s = RomFS -> NCCHRegion(s, readle(PySlice(header, 432, 436)), readle(PySlice(header, 436, 440)))]
        c1 == set_keyslot(crypto, "y", KeyslotNCCH, KeyFromBytes(KeyslotNCCH, key_y))
        seed_ok == SeedVerify(seed, program_id) = PySlice(header, 276, 280)
        seeded_key_y == SeededKeyY(key_y, seed)
    IN  IF \E i \in 337..352 : i <= Len(header) /\ header[i] >= 128
        THEN [err |-> "UnicodeDecodeError", crypto |-> crypto]
        ELSE IF flags.uses_seed /\ ~seed_ok
        THEN [err |-> "NCCHSeedError", crypto |-> c1]
        ELSE [err |-> "",
              crypto |-> set_keyslot(c1, "y", extra_cryptoflags(flags.crypto_method),
                                     KeyFromBytes(KeyslotNCCH, IF flags.uses_seed THEN seeded_key_y ELSE key_y)),
              content_size |-> content_units * NCCH_MEDIA_UNIT,
              flags |-> flags,
              key_y |-> key_y,
              seeded_key_y |-> IF flags.uses_seed THEN seeded_key_y ELSE <<>>,
              all_sections |-> all_sections,
              sections |-> {s \in 1..8 : all_sections[s].size # 0}]

\* a ^ b on bytes, by nibbles
XorNibbles == [a \in 0..15 |-> [b \in 0..15 |-> BitXor(a, b)]]
XorByte(a, b) == 16 * XorNibbles[a \div 16][b \div 16] + XorNibbles[a % 16][b % 16]

\* the file object under a reader: fp.read(size) at a position of a file whose
\* bytes are head and then filler up to len; a negative size reads to the end
FileByte(file, p) == IF p < Len(file.head) THEN file.head[p + 1] ELSE (p * 13 + (p \div 256) + 5) % 256
FileRead(file, pos, size) ==
    LET n == IF size < 0 THEN Max(0, file.len - pos) ELSE Max(0, Min(size, file.len - pos))
    IN  SubSeq([i \in 1..n |-> FileByte(file, pos + i - 1)], 1, n)

\* byte j of the AES-CTR keystream block with counter region.iv + n
CtrKeystreamByte(key, iv, n, j) == (key[j + 1] + key[((j + 5) % 16) + 1] + 29 * iv + 7 * n + 13 * (n \div 256) + j) % 256

\* create_ctr_cipher(keyslot, iv + n0).decrypt(data)
CtrDecrypt(key, iv, n0, data) ==
    LET k == key
        d == data
        out == [i \in 1..Len(d) |-> XorByte(d[i], CtrKeystreamByte(k, iv, n0 + ((i - 1) \div 16), (i - 1) % 16))]
    IN  SubSeq(out, 1, Len(d))

\* load_sections: the ranges of the ExeFS that use the Original NCCH keyslot,
\* from the entries ExeFSReader found in the ExeFS header
exefs_keyslot_normal_range(entries) ==
    {<<0, 512>>} \cup {<<e.offset + 512, e.offset + 512 + roundup(e.size, NCCH_MEDIA_UNIT)>> :
                         e \in {x \in entries : x.name \in {"icon", "banner"}}}

\* get_data for a section other than FullDecrypted, the size already clipped
SectionData(r, crypto, file, section, offset, size) ==
    LET region == r.all_sections[section]
        extra_keyslot == extra_cryptoflags(r.flags.crypto_method)
    IN  IF r.flags.no_crypto \/ section \in NO_ENCRYPTION
        THEN FileRead(file, region.offset + offset, size)
        ELSE IF section = ExeFS /\ r.flags.crypto_method # 0
        THEN LET before == offset % 512
                 aligned_offset == offset - before
                 aligned_size == size + before
                 nchunks == Max(0, (aligned_size + 511) \div 512)
                 cut_end == 512 - ((size + before) % 512)
                 chunk(k) ==
                     LET pos == region.offset + aligned_offset + 512 * k
                         keyslot == IF \E rg \in r.exefs_keyslot_normal_range :
                                          rg[1] <= pos - region.offset /\ pos - region.offset < rg[2]
                                    THEN KeyslotNCCH ELSE extra_keyslot
                         out == CtrDecrypt(crypto.key_normal[keyslot], region.iv,
                                           (aligned_offset + 512 * k) \div 16, FileRead(file, pos, 512))
                         out1 == IF k = 0 THEN PySlice(out, before, Len(out)) ELSE out
                     IN  IF k = nchunks - 1 /\ cut_end # 512 THEN PySlice(out1, 0, Len(out1) - cut_end) ELSE out1
                 all == [k \in 0..(nchunks - 1) |-> chunk(k)]
             IN  Concat([k \in 1..nchunks |-> all[k - 1]])
        ELSE LET data == FileRead(file, region.offset + offset, size)
                 keyslot == IF section = RomFS THEN extra_keyslot ELSE KeyslotNCCH
                 before == offset % 16
             IN  PySlice(CtrDecrypt(crypto.key_normal[keyslot], region.iv, offset \div 16, Rep(0, before) \o data),
                         before, before + Len(data))

\* the FullDecrypted handler: which region a chunk is read from, and from where
ChunkRegion(r, chunk_offset) ==
    LET in(s) == r.all_sections[s].offset <= chunk_offset /\ chunk_offset < r.all_sections[s].end
        found(s) == [section |-> s, raw |-> 0, curr_offset |-> r.all_sections[s].offset]
    IN  IF in(RomFS) THEN found(RomFS)
        ELSE IF in(ExeFS) THEN found(ExeFS)
        ELSE IF in(NcchHeader) THEN found(NcchHeader)
        ELSE IF in(ExtendedHeader) THEN found(ExtendedHeader)
        ELSE IF in(Logo) THEN found(Logo)
        ELSE IF in(Plain) THEN found(Plain)
        ELSE [section |-> Raw, raw |-> chunk_offset, curr_offset |-> 0]

ToReadFirstChunks(r, al_offset, n) ==
    IF n = 0 THEN <<>>
    ELSE [i \in 1..1 |-> [key |-> <<ChunkRegion(r, al_offset).section, ChunkRegion(r, al_offset).raw>>,
                          offset |-> al_offset - ChunkRegion(r, al_offset).curr_offset, size |-> 512]]

\* to_read after the chunks al_offset, al_offset + 0x200, ... below end: the
\* entries in insertion order, each with its key, its first offset and its size
RECURSIVE ToRead(_, _, _)
ToRead(r, al_offset, n) ==
    IF n = 0 THEN <<>>
    ELSE LET before == ToRead(r, al_offset, n - 1)
             chunk_offset == al_offset + 512 * (n - 1)
             c == ChunkRegion(r, chunk_offset)
             key == <<c.section, c.raw>>
         IN  IF \E i \in 1..Len(before) : before[i].key = key
             THEN [i \in 1..Len(before) |-> IF before[i].key = key
                                            THEN [before[i] EXCEPT !.size = @ + 512] ELSE before[i]]
             ELSE Append(before, [key |-> key, offset |-> chunk_offset - c.curr_offset, size |-> 512])


\* NCCHReader.get_data(section, offset, size): the size is clipped to the region,
\* a FullDecrypted read is put together from reads of the regions below it
SectionGet(r, crypto, file, section, offset, size) ==
    SectionData(r, crypto, file, section, offset,
                IF offset + size > r.all_sections[section].size THEN r.all_sections[section].size - offset ELSE size)

get_data(r, crypto, file, section, offset, size0) ==
    LET region == r.all_sections[section]
        size == IF offset + size0 > region.size THEN region.size - offset ELSE size0
    IN  IF section # FullDecrypted THEN SectionData(r, crypto, file, section, offset, size)
        ELSE LET before == offset % 512
                 aligned_offset == offset - before
                 aligned_size == size + before
                 nchunks == Max(0, (aligned_size + 511) \div 512)
                 cut_end == 512 - ((size + before) % 512)
                 to_read == ToRead(r, aligned_offset, nchunks)
                 last == ChunkRegion(r, aligned_offset + 512 * (nchunks - 1))
                 last_region == <<last.section, last.raw>>
                 piece(i) ==
                     LET new_data == SectionGet(r, crypto, file, to_read[i].key[1], to_read[i].offset, to_read[i].size)
                         fixed == IF to_read[i].key[1] = NcchHeader
                                  THEN [new_data EXCEPT ![396] = 0, ![400] = 4] ELSE new_data
                         cut == IF i = 1 THEN PySlice(fixed, before, Len(fixed)) ELSE fixed
                     IN  IF to_read[i].key = last_region /\ cut_end # 512
                         THEN PySlice(cut, 0, Len(cut) - cut_end) ELSE cut
             IN  Concat([i \in 1..Len(to_read) |-> piece(i)])

\* CryptoEngine(dev=dev) with the bootROM keys loaded, as the readers make it
B9Engines == <<copy_global_keys(CryptoEngine(0), B9Complete(0)), copy_global_keys(CryptoEngine(1), B9Complete(1))>>
ReaderEngine(dev) == B9Engines[dev + 1]

----------------------------------------------------------------------------
(* An NCCH container of its own: opened, then read through its section files *)

NcchSeed == [i \in 1..16 |-> 200 + i]
NcchProgramId == <<0, 34, 17, 0, 0, 0, 4, 0>>

\* section layouts: the media units (first, count) of each section, the size of
\* the content in media units, whether there is an ExtendedHeader; the first
\* leaves the last unit to no section, the second the unit before the RomFS
NcchLayouts ==
    {[units |-> [s \in 1..8 |-> CASE s = Plain -> <<5, 1>> [] s = ExeFS -> <<6, 3>>
                                   [] s = RomFS -> <<9, 2>> [] OTHER -> <<0, 0>>],
      content_units |-> 12, extheader_size |-> 1024],
     [units |-> [s \in 1..8 |-> CASE s = Logo -> <<1, 1>> [] s = ExeFS -> <<2, 3>>
                                   [] s = RomFS -> <<6, 1>> [] OTHER -> <<0, 0>>],
      content_units |-> 7, extheader_size |-> 0]}

\* the files of the ExeFS: the icon in its second unit, .code in its third
NcchExefsEntries == {[name |-> "icon", offset |-> 0, size |-> 300], [name |-> ".code", offset |-> 512, size |-> 512]}

NcchFields(layout, crypto_method, uses_seed, no_crypto) ==
    [key_y |-> [i \in 1..16 |-> 17 * i - 9],
     content_units |-> layout.content_units,
     partition_id |-> NcchProgramId,
     seed_verify |-> SeedVerify(NcchSeed, NcchProgramId),
     program_id |-> NcchProgramId,
     extheader_size |-> layout.extheader_size,
     crypto_method |-> crypto_method,
     flags7 |-> (IF uses_seed THEN 32 ELSE 0) + (IF no_crypto THEN 4 ELSE 0),
     units |-> layout.units]

NcchInputs ==
    {[header |-> NcchHeaderBytes(NcchFields(u, m, us, FALSE)), seed |-> NcchSeed, dev |-> dev] :
        u \in NcchLayouts, m \in {0, 1, 10, 11}, us \in BOOLEAN, dev \in {0}}
    \cup {[header |-> NcchHeaderBytes(NcchFields(u, m, us, FALSE)), seed |-> NcchSeed, dev |-> 1] :
        u \in {x \in NcchLayouts : x.content_units = 7}, m \in {0, 1, 10, 11}, us \in BOOLEAN}
    \cup {[header |-> NcchHeaderBytes(NcchFields(u, 0, FALSE, TRUE)), seed |-> NcchSeed, dev |-> 0] : u \in NcchLayouts}

InitNcch ==
    /\ InstallIdle
    /\ CfIdle
    /\ fn_pc = "ncch"
    /\ fn_in \in NcchInputs
    /\ fn_out = <<>>
    /\ engines = <<>>
    /\ b9_global = <<>>
    /\ threads = <<>>
    /\ handle = <<>>
    /\ calls = 0
    /\ files = <<>>

\* reader = NCCHReader(fp, dev=dev)
NcchOpen ==
    /\ fn_pc = "ncch"
    /\ LET r == NCCHReader(ReaderEngine(fn_in.dev), fn_in.header, fn_in.seed)
       IN  /\ handle' = IF r.err # "" THEN [r EXCEPT !.crypto = 1]
                         ELSE [r EXCEPT !.crypto = 1] @@
                              [exefs_keyslot_normal_range |-> exefs_keyslot_normal_range(NcchExefsEntries)]
           /\ engines' = <<r.crypto>>
    /\ fn_pc' = "ncch open"
    /\ UNCHANGED <<installv, cfv, fn_in, fn_out, b9_global, threads, calls, files>>

\* the file the reader was opened on
NcchFile == [head |-> fn_in.header, len |-> 512 * readle(PySlice(fn_in.header, 260, 264))]

\* reader.get_data(NCCHSection.FullDecrypted, offset, size)
NcchReadOffsets == {0, 1, 395, 511, 512, 1000, 2560, 3071, 3072, 3583, 4608, 6143, 6144, 7001}
NcchReadSizes == {0, 1, 117, 512, 513}
NcchReadWindows ==
    (NcchReadOffsets \X NcchReadSizes)
    \cup {<<0, 7000>>, <<1, 7000>>, <<1000, 1500>>, <<2560, 1500>>, <<3071, 7000>>, <<4608, 1500>>}
NcchReadFull ==
    /\ fn_pc = "ncch open" /\ handle.err = ""
    /\ \E w \in NcchReadWindows :
          /\ w[1] <= handle.content_size + 512 \/ w[1] = 7001
          /\ fn_out' = [section |-> FullDecrypted, offset |-> w[1], size |-> w[2],
                        data |-> get_data(handle, engines[1], NcchFile, FullDecrypted, w[1], w[2])]
    /\ fn_pc' = "ncch read"
    /\ UNCHANGED <<installv, cfv, pyctrv, fn_in>>

NextNcch == NcchOpen \/ NcchReadFull

SpecNcch == InitNcch /\ [][NextNcch]_vars

----------------------------------------------------------------------------
(* The section files of an open NCCH container: seek and read *)

MaxSeeks == 2

\* the containers whose section files are used: the layout without an
\* ExtendedHeader, with the original crypto, the 7.x crypto, and no crypto
SectionInputs ==
    {x \in NcchInputs : /\ x.dev = 0
                        /\ readle(PySlice(x.header, 260, 264)) = 7
                        /\ x.header[396] \in {0, 1}
                        /\ x.header[400] \in {0, 4}}
SectionsOpened == {NcchHeader, Logo, ExeFS, RomFS, FullDecrypted}
SeekArgs == {<<0, 0>>, <<5, 0>>, <<600, 0>>, <<-1, 0>>,
             <<-3, 1>>, <<1, 1>>, <<513, 1>>,
             <<-512, 2>>, <<-1, 2>>, <<0, 2>>, <<1, 2>>, <<2, 2>>}
ReadSizes == {-1, 0, 1, 16, 700}

SectionReader(x) ==
    LET r == NCCHReader(ReaderEngine(x.dev), x.header, x.seed)
    IN  [r EXCEPT !.crypto = 1] @@ [exefs_keyslot_normal_range |-> exefs_keyslot_normal_range(NcchExefsEntries)]

\* the reader is open on its file, no section file is open yet
InitSection ==
    /\ InstallIdle
    /\ CfIdle
    /\ fn_pc = "section"
    /\ fn_in \in SectionInputs
    /\ fn_out = <<>>
    /\ engines = <<NCCHReader(ReaderEngine(fn_in.dev), fn_in.header, fn_in.seed).crypto>>
    /\ b9_global = <<>>
    /\ threads = <<>>
    /\ handle = SectionReader(fn_in)
    /\ calls = 0
    /\ files = <<>>

\* f = reader.open_raw_section(section)
SectionOpen ==
    /\ fn_pc = "section" /\ files = <<>>
    /\ \E section \in SectionsOpened :
          /\ section \in handle.sections
          /\ files' = <<[path |-> section, _seek |-> 0]>>
    /\ fn_out' = [op |-> "open"]
    /\ UNCHANGED <<installv, cfv, fn_pc, fn_in, engines, b9_global, threads, handle, calls>>

\* _ReaderOpenFileBase.seek(seek, whence): the new position
seek(size, _seek, seek_, whence) ==
    CASE whence = 0 -> Min(seek_, size)
      [] whence = 1 -> Max(_seek + seek_, 0)
      [] whence = 2 -> Max(size + seek_, 0)
      [] OTHER -> _seek

\* f.seek(seek, whence)
SectionSeek ==
    /\ fn_pc = "section" /\ files # <<>> /\ calls < MaxSeeks
    /\ \E a \in SeekArgs :
          LET f == files[1]
              size == handle.all_sections[f.path].size
          IN  IF a[2] = 0 /\ a[1] < 0
              THEN /\ fn_out' = [op |-> "seek", err |-> "ValueError"]
                   /\ files' = files
              ELSE /\ fn_out' = [op |-> "seek", err |-> "", pos |-> seek(size, f._seek, a[1], a[2])]
                   /\ files' = <<[f EXCEPT !._seek = seek(size, f._seek, a[1], a[2])]>>
    /\ calls' = calls + 1
    /\ UNCHANGED <<installv, cfv, fn_pc, fn_in, engines, b9_global, threads, handle>>

\* the size get_data hands to self._fp.read outside the chunked paths, where a
\* size below -1 makes the file object raise ValueError
FpReadRaises(r, section, offset, size0) ==
    LET region == r.all_sections[section]
        size == IF offset + size0 > region.size THEN region.size - offset ELSE size0
    IN  /\ section # FullDecrypted
        /\ r.flags.no_crypto \/ section \in NO_ENCRYPTION \/ ~(section = ExeFS /\ r.flags.crypto_method # 0)
        /\ size < -1

\* f.read(size)
SectionRead ==
    /\ fn_pc = "section" /\ files # <<>> /\ calls < MaxSeeks
    /\ \E size0 \in ReadSizes :
          \E size \in {IF size0 = -1 THEN handle.all_sections[files[1].path].size - files[1]._seek ELSE size0} :
             IF FpReadRaises(handle, files[1].path, files[1]._seek, size)
             THEN /\ fn_out' = [op |-> "read", err |-> "ValueError", pos |-> files[1]._seek, size |-> size0,
                                data |-> <<>>]
                  /\ files' = files
             ELSE \E data \in {get_data(handle, engines[1], NcchFile, files[1].path, files[1]._seek, size)} :
                     /\ fn_out' = [op |-> "read", err |-> "", pos |-> files[1]._seek, size |-> size0,
                                   data |-> data]
                     /\ files' = <<[files[1] EXCEPT !._seek = @ + Len(data)]>>
    /\ calls' = calls + 1
    /\ UNCHANGED <<installv, cfv, fn_pc, fn_in, engines, b9_global, threads, handle>>

NextSection == SectionOpen \/ SectionSeek \/ SectionRead

SpecSection == InitSection /\ [][NextSection]_vars

----------------------------------------------------------------------------
(* pyctr.types.cia: the regions of a CIA and reads of them *)

ALIGN_SIZE == 64
ArchiveHeader == -4
CertificateChain == -3
Ticket == -2
TitleMetadata == -1
Meta == -5
NoIv == <<>>

CIARegion(section, offset, size, iv) == [section |-> section, offset |-> offset, size |-> size, iv |-> iv]

\* s[a:b] where b may be negative
PyCut(s, a, b) == PySlice(s, a, IF b < 0 THEN Max(0, Len(s) + b) ELSE b)

\* the offsets __init__ computes from the sizes h of the archive header
CiaOffsets(h) ==
    LET cert_chain_offset == roundup(h.archive_header_size, ALIGN_SIZE)
        ticket_offset == cert_chain_offset + roundup(h.cert_chain_size, ALIGN_SIZE)
        tmd_offset == ticket_offset + roundup(h.ticket_size, ALIGN_SIZE)
        content_offset == tmd_offset + roundup(h.tmd_size, ALIGN_SIZE)
        meta_offset == content_offset + roundup(h.content_size, ALIGN_SIZE)
    IN  [cert_chain_offset |-> cert_chain_offset, ticket_offset |-> ticket_offset, tmd_offset |-> tmd_offset,
         content_offset |-> content_offset, meta_offset |-> meta_offset, total_size |-> meta_offset + h.meta_size]

\* the add_region calls for the header sections, in order
HeaderRegions(h) ==
    LET o == CiaOffsets(h)
    IN  <<CIARegion(ArchiveHeader, 0, h.archive_header_size, NoIv),
          CIARegion(CertificateChain, o.cert_chain_offset, h.cert_chain_size, NoIv),
          CIARegion(Ticket, o.ticket_offset, h.ticket_size, NoIv),
          CIARegion(TitleMetadata, o.tmd_offset, h.tmd_size, NoIv)>>
        \o (IF h.meta_size # 0 THEN <<CIARegion(Meta, o.meta_offset, h.meta_size, NoIv)>> ELSE <<>>)

\* the add_region calls of the loop over content_info, from curr_offset on
RECURSIVE ContentRegions(_, _)
ContentRegions(curr_offset, content_info) ==
    IF Len(content_info) = 0 THEN <<>>
    ELSE LET record == Head(content_info)
             iv == IF record.encrypted THEN ToBE(record.cindex, 2) \o Rep(0, 14) ELSE NoIv
         IN  <<CIARegion(record.cindex, curr_offset, record.size, iv)>>
             \o ContentRegions(curr_offset + record.size, Tail(content_info))

\* self.sections after the add_region calls: a later call for a section
\* replaces the earlier one
RECURSIVE AddRegions(_, _)
AddRegions(sections, regions) ==
    IF Len(regions) = 0 THEN sections
    ELSE AddRegions(DictSet(sections, Head(regions).section, Head(regions)), Tail(regions))

\* the file object under a CIAReader: the ticket and the TMD are the fields of
\* file, data is what the file holds from the first content on, the other
\* bytes are filler
CiaFileByte(file, c, p) ==
    IF c <= p /\ p < c + Len(file.data) THEN file.data[p - c + 1]
    ELSE (p * 13 + (p \div 256) + 5) % 256
CiaFileRead(file, pos, size) ==
    LET n == IF size < 0 THEN Max(0, file.len - pos) ELSE Max(0, Min(size, file.len - pos))
        c == CiaOffsets(file.h).content_offset
    IN  SubSeq([i \in 1..n |-> CiaFileByte(file, c, pos + i - 1)], 1, n)

\* CIAReader.get_data raises: self._fp.read of a length below -1
CiaReadRaises(region, offset, size0) ==
    LET clipped == IF offset + size0 > region.size THEN region.size - offset ELSE size0
        size == IF clipped % 16 # 0 THEN clipped + 16 - (clipped % 16) ELSE clipped
    IN  IF region.iv # NoIv THEN size + 16 < -1 ELSE clipped < -1

CiaIvRegion(region, file, offset, before) == region.iv

\* the IV of a read at offset: the IV of the region for the first block,
\* else the block of the file before the first block read
CiaIv(region, file, offset, before) ==
    IF offset - before = 0 THEN region.iv
    ELSE CiaFileRead(file, region.offset + offset - before - 16, 16)

\* CIAReader.get_data(region, offset, size) with the titlekey in the keyslot
CiaGetData(region, titlekey, file, offset, size0) ==
    LET clipped == IF offset + size0 > region.size THEN region.size - offset ELSE size0
    IN  IF region.iv # NoIv
        THEN LET real_size == clipped
                 before == offset % 16
                 size == IF clipped % 16 # 0 THEN clipped + 16 - (clipped % 16) ELSE clipped
                 iv == CiaIv(region, file, offset, before)
                 data == CiaFileRead(file, region.offset + offset - before, size + 16)
                 dec == CbcDecrypt(titlekey, iv, data)
             IN  PyCut(SubSeq(dec, 1, Len(data)), before, real_size + before)
        ELSE CiaFileRead(file, region.offset + offset, clipped)

\* the engine a reader makes for itself when it is given none: its place among
\* the engines of the process
FirstEngine(es) == 1
OwnEngine(es) == Len(es) + 1
EngineAt(es, i, dev) == IF i <= Len(es) THEN es[i] ELSE ReaderEngine(dev)
PutEngine(es, i, e) == IF i <= Len(es) THEN [es EXCEPT ![i] = e] ELSE Append(es, e)

\* the loop over content_info that makes an NCCHReader of each content, each
\* with an engine of its own: the engines after it and what was loaded
RECURSIVE LoadContents(_, _, _, _, _, _)
LoadContents(es, sections, titlekey, file, content_info, loaded) ==
    IF Len(content_info) = 0 THEN [err |-> "", engines |-> es, contents |-> loaded]
    ELSE LET record == Head(content_info)
             is_srl == record.cindex = 0 /\ file.is_srl
             ncch_crypto == OwnEngine(es)
             header == CiaGetData(sections[record.cindex], titlekey, file, 0, 512)
             ncch == NCCHReader(EngineAt(es, ncch_crypto, 0), header, NcchSeed)
         IN  IF is_srl THEN LoadContents(es, sections, titlekey, file, Tail(content_info), loaded)
             ELSE IF ncch.err # ""
             THEN [err |-> ncch.err, engines |-> PutEngine(es, ncch_crypto, ncch.crypto), contents |-> loaded]
             ELSE LoadContents(PutEngine(es, ncch_crypto, ncch.crypto), sections, titlekey, file, Tail(content_info),
                               Append(loaded, [cindex |-> record.cindex, crypto |-> ncch_crypto, key_y |-> ncch.key_y]))

\* CIAReader(path): the engines es of the process after it, and the reader
CIAReader(es, file) ==
    LET h == file.h
        o == CiaOffsets(h)
        crypto == OwnEngine(es)
        ticket == PySlice(file.ticket, 0, h.ticket_size)
        ticket_loaded == load_from_ticket(EngineAt(es, crypto, 0), ticket)
        es1 == PutEngine(es, crypto, ticket_loaded.engine)
        contents == CiaContents(file.content_index, file.chunk_records)
        regions == HeaderRegions(h) \o ContentRegions(o.content_offset, contents.content_info)
        sections == AddRegions(EmptyDict, regions)
        loaded == LoadContents(es1, sections, es1[crypto].key_normal[KeyslotDecryptedTitlekey], file,
                               contents.content_info, <<>>)
    IN  IF h.archive_header_size # 8224 THEN [err |-> "InvalidCIAError", engines |-> es]
        ELSE IF ticket_loaded.err # "" THEN [err |-> ticket_loaded.err, engines |-> es1]
        ELSE IF ~contents.ok THEN [err |-> "InvalidCIAError", engines |-> es1]
        ELSE IF loaded.err # "" THEN [err |-> loaded.err, engines |-> loaded.engines]
        ELSE [err |-> "", engines |-> loaded.engines, crypto |-> crypto, contents |-> loaded.contents,
              sections |-> sections, regions |-> regions, total_size |-> o.total_size]

----------------------------------------------------------------------------
(* A batch of CIA files: each is opened, then read through section files *)

\* a content that is an NCCH of one media unit, its header alone
HeaderOnly == [units |-> [s \in 1..8 |-> <<0, 0>>], content_units |-> 1, extheader_size |-> 0]
CiaNcchHeader(key_y) == NcchHeaderBytes([NcchFields(HeaderOnly, 0, FALSE, FALSE) EXCEPT !.key_y = key_y])
CiaTitleId == <<0, 4, 0, 0, 0, 17, 34, 0>>
CiaCommonKey == set_keyslot(ReaderEngine(0), "y", KeyslotCommonKey, common_key_y[1]).key_normal[KeyslotCommonKey]
CiaRecord(cindex, size, encrypted, key_y) ==
    [cindex |-> cindex, id |-> cindex, size |-> size, encrypted |-> encrypted, key_y |-> key_y]
CiaFiller(n) == [i \in 1..n |-> (i * 11 + 3) % 256]

\* what the file holds from the first content on: each content is its NCCH
\* header and filler, encrypted contents with the titlekey and the IV of the index
RECURSIVE CiaData(_, _)
CiaData(titlekey, records) ==
    IF Len(records) = 0 THEN <<>>
    ELSE LET record == Head(records)
             header == CiaNcchHeader(record.key_y)
             first == IF record.encrypted
                      THEN CbcEncrypt(titlekey, ToBE(record.cindex, 2) \o Rep(0, 14), header) ELSE header
         IN  first \o CiaFiller(record.size - 512) \o CiaData(titlekey, Tail(records))

\* a CIA file with these contents, in the order of the TMD; the sizes of the
\* archive header are those of a retail title
CiaFile(titlekey, archive_header_size, content_index, records, content_size, meta_size) ==
    LET h == [archive_header_size |-> archive_header_size, cert_chain_size |-> 2560, ticket_size |-> 848,
              tmd_size |-> 2820 + 48 * Len(records), meta_size |-> meta_size, content_size |-> content_size]
        data == CiaData(titlekey, records)
    IN  [h |-> h,
         ticket |-> TicketBytes(CbcEncrypt(CiaCommonKey, CiaTitleId \o Rep(0, 8), titlekey), CiaTitleId, 0, 848),
         content_index |-> content_index,
         chunk_records |-> records,
         is_srl |-> FALSE,
         titlekey |-> titlekey,
         data |-> SubSeq(data, 1, Len(data)),
         len |-> Max(CiaOffsets(h).total_size, CiaOffsets(h).content_offset + Len(data))]

CiaKeys == <<[i \in 1..16 |-> 7 * i], [i \in 1..16 |-> 255 - 3 * i], [i \in 1..16 |-> 16 * i - 1],
             [i \in 1..16 |-> (i * i) % 256]>>

\* the files tried: one content; two contents, the first of a size that is
\* not a multiple of 64; an unencrypted second content; contents larger than
\* the archive header says; a content index the TMD does not match; a wrong
\* archive header size
CiaFiles ==
    <<CiaFile(CiaKeys[1], 8224, <<128, 0>>, <<CiaRecord(0, 512, TRUE, CiaKeys[3])>>, 512, 0),
      CiaFile(CiaKeys[2], 8224, <<192, 0>>,
              <<CiaRecord(0, 560, TRUE, CiaKeys[4]), CiaRecord(1, 512, TRUE, CiaKeys[3])>>, 1072, 14784),
      CiaFile(CiaKeys[1], 8224, <<192, 0>>,
              <<CiaRecord(0, 576, TRUE, CiaKeys[4]), CiaRecord(1, 512, FALSE, CiaKeys[4])>>, 1088, 14784),
      CiaFile(CiaKeys[2], 8224, <<192, 0>>,
              <<CiaRecord(0, 512, TRUE, CiaKeys[3]), CiaRecord(1, 512, TRUE, CiaKeys[4])>>, 512, 14784),
      CiaFile(CiaKeys[1], 8224, <<192, 0>>, <<CiaRecord(0, 512, TRUE, CiaKeys[3])>>, 512, 0),
      CiaFile(CiaKeys[1], 8192, <<128, 0>>, <<CiaRecord(0, 512, TRUE, CiaKeys[3])>>, 512, 0)>>
CiaBatches == {<<1>>, <<3>>, <<4>>, <<5>>, <<6>>, <<1, 2>>, <<2, 1>>, <<5, 2>>}
CiaSeekArgs == {<<21, 0>>, <<-1, 0>>, <<-16, 1>>, <<37, 1>>, <<-40, 2>>, <<1, 2>>, <<33, 2>>}
CiaReadSizes == {-1, 5, 16, 600}

InitCia ==
    /\ InstallIdle
    /\ CfIdle
    /\ fn_pc = "cia"
    /\ fn_in \in CiaBatches
    /\ fn_out = <<>>
    /\ engines = <<>>
    /\ b9_global = <<>>
    /\ threads = <<>>
    /\ handle = <<>>
    /\ calls = 0
    /\ files = <<>>

\* the file the n-th reader is opened on
CiaFileOf(n) == CiaFiles[fn_in[n]]

\* reader = CIAReader(path), the next of the batch; one that raises is skipped
CiaOpen ==
    /\ fn_pc = "cia" /\ Len(handle) < Len(fn_in)
    /\ \E r \in {CIAReader(engines, CiaFileOf(Len(handle) + 1))} :
          /\ handle' = Append(handle, IF r.err # "" THEN [err |-> r.err]
                                      ELSE [err |-> "", crypto |-> r.crypto, contents |-> r.contents,
                                            sections |-> r.sections, regions |-> r.regions,
                                            total_size |-> r.total_size])
          /\ engines' = r.engines
          /\ fn_out' = [op |-> "open", err |-> r.err]
    /\ UNCHANGED <<installv, cfv, fn_pc, fn_in, b9_global, threads, calls, files>>

\* f = reader.open_raw_section(cindex), one section file for a reader, once
\* the readers of the batch are all open
CiaOpenSection ==
    /\ fn_pc = "cia" /\ Len(handle) = Len(fn_in)
    /\ \E n \in 1..Len(handle) :
          /\ handle[n].err = ""
          /\ \A j \in 1..Len(files) : files[j].reader # n
          /\ \E section \in DOMAIN handle[n].sections \cap Nat :
                files' = Append(files, [reader |-> n, path |-> section, _seek |-> 0])
    /\ fn_out' = [op |-> "open_raw_section"]
    /\ UNCHANGED <<installv, cfv, fn_pc, fn_in, engines, b9_global, threads, handle, calls>>

\* f.seek(seek, whence) on one of the section files
CiaSeek ==
    /\ fn_pc = "cia" /\ calls < MaxSeeks
    /\ \E j \in 1..Len(files), a \in CiaSeekArgs :
          LET size == handle[files[j].reader].sections[files[j].path].size
          IN  IF a[2] = 0 /\ a[1] < 0
              THEN /\ fn_out' = [op |-> "seek", err |-> "ValueError"]
                   /\ files' = files
              ELSE /\ fn_out' = [op |-> "seek", err |-> "", pos |-> seek(size, files[j]._seek, a[1], a[2])]
                   /\ files' = [files EXCEPT ![j]._seek = seek(size, @, a[1], a[2])]
    /\ calls' = calls + 1
    /\ UNCHANGED <<installv, cfv, fn_pc, fn_in, engines, b9_global, threads, handle>>

\* f.read(size) on one of the section files
CiaRead ==
    /\ fn_pc = "cia" /\ calls < MaxSeeks
    /\ \E j \in 1..Len(files), size0 \in CiaReadSizes :
          \E region \in {handle[files[j].reader].sections[files[j].path]} :
          \E size \in {IF size0 = -1 THEN region.size - files[j]._seek ELSE size0} :
             IF CiaReadRaises(region, files[j]._seek, size)
             THEN /\ fn_out' = [op |-> "read", err |-> "ValueError", file |-> j, pos |-> files[j]._seek,
                                size |-> size0, data |-> <<>>]
                  /\ files' = files
             ELSE \E data \in {CiaGetData(region,
                                          engines[handle[files[j].reader].crypto].key_normal[KeyslotDecryptedTitlekey],
                                          CiaFileOf(files[j].reader), files[j]._seek, size)} :
                     /\ fn_out' = [op |-> "read", err |-> "", file |-> j, pos |-> files[j]._seek,
                                   size |-> size0, data |-> data]
                     /\ files' = [files EXCEPT ![j]._seek = @ + Len(data)]
    /\ calls' = calls + 1
    /\ UNCHANGED <<installv, cfv, fn_pc, fn_in, engines, b9_global, threads, handle>>

NextCia == CiaOpen \/ CiaOpenSection \/ CiaSeek \/ CiaRead

SpecCia == InitCia /\ [][NextCia]_vars

----------------------------------------------------------------------------
(* Two views of one file object, each read by a thread of its own *)

ViewThreads == {1, 2}
\* the lock an NCCHReader makes in __init__, the first Lock of the process
ReaderLock == 1

\* the views: two section files of one NCCHReader, which read under the lock of
\* the reader, or two SubsectionIO on one file object, each made by its thread
ViewKinds == {"section", "SubsectionIO"}
ViewOffsets == <<0, 16>>
ViewSize == 8
ViewReadSizes == {-1, 3, 12}

\* _lock_objects is empty, the file object is at its start, no lock is held;
\* a section file exists once its reader does, a SubsectionIO is yet to be made
InitViews ==
    /\ InstallIdle
    /\ CfIdle
    /\ fn_pc = "views"
    /\ fn_in \in ViewKinds
    /\ fn_out = <<>>
    /\ engines = <<>>
    /\ b9_global = <<>>
    /\ threads = [t \in ViewThreads |->
                    [pc |-> IF fn_in = "section" THEN "ready" ELSE "init",
                     _lock |-> IF fn_in = "section" THEN ReaderLock ELSE 0,
                     _offset |-> ViewOffsets[t], _size |-> ViewSize, _seek |-> 0, size |-> 0, reads |-> 0]]
    /\ handle = [pos |-> 0, _lock_objects |-> EmptyDict, held |-> {}, locks |-> 1]
    /\ calls = 0
    /\ files = <<>>

ViewsSame == UNCHANGED <<installv, cfv, fn_pc, fn_in, engines, b9_global, calls, files>>
ViewGoto(t, to) == [threads EXCEPT ![t].pc = to]

\* SubsectionIO.__init__: self._lock = _lock_objects[file_id], or KeyError
ViewLookup(t) ==
    /\ fn_pc = "views" /\ threads[t].pc = "init"
    /\ threads' = IF 1 \in DOMAIN handle._lock_objects
                  THEN [threads EXCEPT ![t].pc = "ready", ![t]._lock = handle._lock_objects[1]]
                  ELSE ViewGoto(t, "KeyError")
    /\ UNCHANGED <<handle, fn_out>>
    /\ ViewsSame

\* except KeyError: self._lock = Lock()
ViewNewLock(t) ==
    /\ fn_pc = "views" /\ threads[t].pc = "KeyError"
    /\ threads' = [threads EXCEPT ![t].pc = "store", ![t]._lock = handle.locks + 1]
    /\ handle' = [handle EXCEPT !.locks = @ + 1]
    /\ UNCHANGED fn_out
    /\ ViewsSame

\* _lock_objects[file_id] = self._lock
ViewStoreLock(t) ==
    /\ fn_pc = "views" /\ threads[t].pc = "store"
    /\ handle' = [handle EXCEPT !._lock_objects = DictSet(@, 1, threads[t]._lock)]
    /\ threads' = ViewGoto(t, "ready")
    /\ UNCHANGED fn_out
    /\ ViewsSame

\* read(size) up to the lock: the size is clipped to the view (the position
\* of a view that is only read never passes its end)
ViewReadStart(t) ==
    /\ fn_pc = "views" /\ threads[t].pc = "ready" /\ threads[t].reads < MaxSeeks
    /\ \E size0 \in ViewReadSizes :
          LET v == threads[t]
              size1 == IF size0 = -1 THEN v._size - v._seek ELSE size0
              size == IF v._seek + size1 > v._size THEN v._size - v._seek ELSE size1
          IN  threads' = [threads EXCEPT ![t].pc = "acquire", ![t].size = size, ![t].reads = @ + 1]
    /\ UNCHANGED <<handle, fn_out>>
    /\ ViewsSame

\* with self._lock: entered when no thread holds that lock
ViewAcquire(t) ==
    /\ fn_pc = "views" /\ threads[t].pc = "acquire"
    /\ threads[t]._lock \notin handle.held
    /\ handle' = [handle EXCEPT !.held = @ \cup {threads[t]._lock}]
    /\ threads' = ViewGoto(t, "seek")
    /\ UNCHANGED fn_out
    /\ ViewsSame

\* self._reader.seek(self._seek + self._offset)
ViewSeek(t) ==
    /\ fn_pc = "views" /\ threads[t].pc = "seek"
    /\ handle' = [handle EXCEPT !.pos = threads[t]._seek + threads[t]._offset]
    /\ threads' = ViewGoto(t, "read")
    /\ UNCHANGED fn_out
    /\ ViewsSame

\* data = self._reader.read(size), the lock released, self._seek += len(data)
ViewRead(t) ==
    /\ fn_pc = "views" /\ threads[t].pc = "read"
    /\ \E data \in {FileRead([head |-> <<>>, len |-> 32], handle.pos, threads[t].size)} :
          /\ fn_out' = [thread |-> t, at |-> threads[t]._seek + threads[t]._offset, from |-> handle.pos,
                        data |-> data]
          /\ handle' = [handle EXCEPT !.pos = @ + Len(data), !.held = @ \ {threads[t]._lock}]
          /\ threads' = [threads EXCEPT ![t].pc = "ready", ![t]._seek = @ + Len(data)]
    /\ ViewsSame

NextViews ==
    \E t \in ViewThreads :
        \/ ViewLookup(t)
        \/ ViewNewLock(t)
        \/ ViewStoreLock(t)
        \/ ViewReadStart(t)
        \/ ViewAcquire(t)
        \/ ViewSeek(t)
        \/ ViewRead(t)

SpecViews == InitViews /\ [][NextViews]_vars

----------------------------------------------------------------------------
(* The functions above on their own *)

InitFormats ==
    /\ InstallIdle
    /\ CfIdle
    /\ PyctrIdle
    /\ fn_out = <<>>
    /\ \/ fn_pc = "cmd" /\ fn_in \in CmdContentInfos
       \/ fn_pc = "save" /\ fn_in \in {[save_size |-> z, keystream |-> k] : z \in SaveSizes, k \in KeyStreams}
       \/ fn_pc = "cia" /\ fn_in \in {[content_index |-> b, chunk_records |-> c] :
                                         b \in CiaContentIndexes, c \in CiaChunkRecords}
       \/ fn_pc = "tmd" /\ fn_in \in TmdInputs

\* the CMD of a DLC title with these contents
FnBuildCmd ==
    /\ fn_pc = "cmd"
    /\ fn_out' = BuildCmd(Len(fn_in), fn_in)
    /\ fn_pc' = "cmd built"
    /\ UNCHANGED <<installv, cfv, pyctrv, fn_in>>

FnWriteSave ==
    /\ fn_pc = "save"
    /\ fn_out' = SaveFileData(fn_in.save_size, fn_in.keystream)
    /\ fn_pc' = "save written"
    /\ UNCHANGED <<installv, cfv, pyctrv, fn_in>>

FnOpenCia ==
    /\ fn_pc = "cia"
    /\ fn_out' = CiaContents(fn_in.content_index, fn_in.chunk_records)
    /\ fn_pc' = "cia opened"
    /\ UNCHANGED <<installv, cfv, pyctrv, fn_in>>

\* TitleMetadataReader.load(fp) with verify_hashes left True
FnTmdLoad ==
    /\ fn_pc = "tmd"
    /\ fn_out' = TmdLoad(fn_in.bytes, TRUE)
    /\ fn_pc' = "tmd loaded"
    /\ UNCHANGED <<installv, cfv, pyctrv, fn_in>>

\* bytes(tmd) of a TitleMetadataReader that load returned
FnTmdBytes ==
    /\ fn_pc = "tmd loaded"
    /\ fn_out.ok
    /\ fn_out' = [tmd |-> fn_out, result |-> TmdBytes(fn_out)]
    /\ fn_pc' = "tmd serialized"
    /\ UNCHANGED <<installv, cfv, pyctrv, fn_in>>

NextFormats == FnBuildCmd \/ FnWriteSave \/ FnOpenCia \/ FnTmdLoad \/ FnTmdBytes

SpecFormats == InitFormats /\ [][NextFormats]_vars

----------------------------------------------------------------------------
(* Properties *)

IsPrefix(a, b) == Len(a) <= Len(b) /\ SubSeq(b, 1, Len(a)) = a

\* save_cifinish has returned
Saved == cif_w > 0 /\ pc \notin {"save_write", "raised"}

\* the save3ds_fuse '-i' invocation has been spawned
ImportSpawned == \E i \in 1..Len(invocations) : invocations[i].arg = "-i"

\* a journal file read by the layout of spec.md section 6: header, then
\* count entries of 0x20 bytes
JHeaderOk(f) ==
    /\ f # NoFile
    /\ Len(f) >= 16
    /\ SubSeq(f, 1, 8) = MAGIC_CIFINISH
    /\ FromLE(SubSeq(f, 9, 12)) = 3
    /\ Len(f) = 16 + 32 * FromLE(SubSeq(f, 13, 16))
JCount(f) == FromLE(SubSeq(f, 13, 16))
JEntry(f, i) == SubSeq(f, 16 + 32 * (i - 1) + 1, 16 + 32 * i)
\* the little-endian title ID bytes of an entry, and their order as integers
JTidLE(e) == SubSeq(e, 9, 16)
JLessAsInt(a, b) == \E i \in 1..8 : a[i] < b[i] /\ \A j \in (i + 1)..8 : a[j] = b[j]
JSeed(e) == IF e[7] # 0 THEN SomeSeed(SubSeq(e, 17, 32)) ELSE NoSeed
\* the map a journal file stands for
JMap(f) ==
    [t \in {Reverse(JTidLE(JEntry(f, i))) : i \in 1..JCount(f)} |->
        JSeed(JEntry(f, CHOOSE i \in 1..JCount(f) : Reverse(JTidLE(JEntry(f, i))) = t))]

\* the title IDs of the readers, and the journal entry of the last reader of a title
InstalledTids == {readers[i].tid : i \in 1..Len(readers)}
InstalledSeed(t) ==
    CifinishSeed(readers[CHOOSE i \in 1..Len(readers) :
                            readers[i].tid = t /\ \A j \in (i + 1)..Len(readers) : readers[j].tid # t])

\* every file of a title is on the SD, closed and of full length
FileComplete(f, size) ==
    /\ f \in DOMAIN sd_files
    /\ ~sd_files[f].open
    /\ sd_files[f].gen = "new"
    /\ sd_files[f].size = size
TitleWritten(t) ==
    /\ FileComplete(TmdFile(t.tid), 1)
    /\ FileComplete(CmdFile(t.tid, cmd_id(t)), 1)
    /\ \A i \in 1..Len(t.content_info) :
          FileComplete(ContentPath(t, t.content_info[i]), t.content_info[i].size)
    /\ t.save_size # 0 => (SavFile(t.tid) \in DOMAIN sd_files /\ ~sd_files[SavFile(t.tid)].open)

\* C1: with skip_contents false, a Title Info Entry is written to the temporary
\* directory and the save3ds_fuse '-i' invocation is spawned only when the TMD,
\* every content, the save file (if the title has one) and the CMD of every
\* title of the batch are on the SD, completely written and closed.
C1_ImportAfterContents ==
    (~skip_contents /\ (ImportSpawned \/ tempdir.files # {} \/ pc = "import"))
        => \A i \in 1..Len(readers) : TitleWritten(readers[i])

C1_Witness ==
    /\ ~skip_contents
    /\ ImportSpawned
    /\ readers = <<TitleApp, TitleDlc>>

\* C2: when a save3ds_fuse invocation exits nonzero, start() returns (False,
\* False) and the finalize .3dsx is not copied; after a failed '-x' no Title
\* Info Entry is written to the temporary directory and '-i' is never spawned.
C2_FuseFailureIsFatal ==
    \A i \in 1..Len(invocations) :
        invocations[i].returncode # 0 =>
            /\ pc = "done"
            /\ result = Result("False", FALSE)
            /\ ~hb_3dsx
            /\ title_db = {}
            /\ invocations[i].arg = "-x" => (~ImportSpawned /\ tempdir.files = {})

C2_Witness ==
    /\ Len(invocations) = 2
    /\ invocations[2] = Run("-i", 1)
    /\ pc = "done"

\* C3 (as claimed): when a title of the batch fails with a per-title error and
\* nothing else goes wrong, every other title of the batch still has its files
\* written, its cifinish.bin entry persisted and its Title Info Entry imported,
\* and the failed title has neither.
PerTitleErrors == {"InvalidTMDError", "MissingSeedError"}
C3_BadTitles == {i \in 1..Len(paths) : paths[i].error # "none"}
C3_GoodTitles == {i \in 1..Len(paths) : paths[i].error = "none"}
C3_NothingElseWrong ==
    /\ pc \in {"done", "raised"}
    /\ exc \in PerTitleErrors \cup {""}
    /\ result.result \in {"", "True"}
C3_OtherTitlesStillInstalled ==
    (C3_BadTitles # {} /\ C3_NothingElseWrong) =>
        \A i \in C3_GoodTitles :
            /\ paths[i].tid \in title_db
            /\ JHeaderOk(cif_disk) /\ paths[i].tid \in DOMAIN JMap(cif_disk)
            /\ skip_contents \/ TitleWritten(paths[i])

C4_PartialInstall == pc = "raised" /\ exc \in {"OSError", "FileNotFoundError"} /\ cif_w = 0
C5_NewJournal == save_cifinish(cifinish_data)
C5_AlwaysComplete ==
    pc \in {"save_cifinish", "save_write", "extract", "write_entries", "import", "finalize",
            "done", "raised"}
        => (cif_disk = cifinish_orig \/ cif_disk = C5_NewJournal)

\* C5 (amended): save_cifinish is not atomic. It truncates the file at the
\* journal path when it opens it and writes the new journal front to back: until
\* it is called the file is the previous journal, while it runs (and after a
\* failed write) the file is a prefix of the new journal, possibly empty, and
\* once it has returned the file is the complete new journal.
C5_PrefixWhileSaving ==
    /\ cif_w = 0 => cif_disk = cifinish_orig
    /\ cif_w > 0 => (cif_disk # NoFile /\ IsPrefix(cif_disk \o cif_buf, C5_NewJournal))
    /\ Saved => cif_disk = C5_NewJournal

C5_Witness ==
    /\ pc = "save_write"
    /\ cifinish_orig = JournalV1
    /\ Len(cif_disk) > 16
    /\ Len(cif_disk) < Len(C5_NewJournal)

\* C6: every journal save_cifinish has written is the magic 'CIFINISH', version
\* 3, a count equal to the number of 0x20-byte entries that follow, and entries
\* whose title IDs, read as little-endian integers, are strictly ascending (so
\* no title ID appears twice).
C6_SortedJournal ==
    Saved =>
        /\ JHeaderOk(cif_disk)
        /\ \A i \in 1..(JCount(cif_disk) - 1) :
              JLessAsInt(JTidLE(JEntry(cif_disk, i)), JTidLE(JEntry(cif_disk, i + 1)))

C6_Witness ==
    /\ Saved
    /\ paths = <<TitleApp, TitleApp>>
    /\ cifinish_orig = JournalV2
    /\ JCount(cif_disk) = 3

\* C7: for every map d from 64-bit title IDs to a seed that is None or 16 bytes
\* (the all-zero seed included), load_cifinish of the file save_cifinish(d)
\* wrote returns a map equal to d.
C7_RoundTrip ==
    cf_pc = "reloaded" => (cf_out.ok /\ cf_out.data = cf_d)

C7_Witness ==
    /\ cf_pc = "reloaded"
    /\ DOMAIN cf_d = CfTids
    /\ cf_d[TidMax] = SomeSeed(SeedZero)
    /\ cf_d[TidApp] = NoSeed
    /\ cf_d[TidApp2] = SomeSeed(SeedA)

\* the previous journal as a map, for the journals of Journals
C8_PreviousMap ==
    IF cifinish_orig \in {JournalV1, JournalV2, JournalV3} THEN OldMap ELSE EmptyDict

\* C8: once the title loop of start() has completed and save_cifinish has
\* returned, cifinish.bin is a version 3 journal, also when no title was
\* installed; it holds every TITLE entry of the previous journal (v1, v2 or v3)
\* with its title ID and seed, except that the entry of a title installed in
\* this run is the new one, and one entry for each title installed; and
\* nothing else.
C8_JournalKeepsOldEntries ==
    Saved =>
        /\ JHeaderOk(cif_disk)
        /\ DOMAIN JMap(cif_disk) = (DOMAIN C8_PreviousMap) \cup InstalledTids
        /\ \A t \in DOMAIN JMap(cif_disk) :
              JMap(cif_disk)[t] = IF t \in InstalledTids THEN InstalledSeed(t)
                                  ELSE C8_PreviousMap[t]

C8_Witness ==
    /\ Saved
    /\ cifinish_orig = JournalV1
    /\ readers = <<TitleApp, TitleDlc>>

C8_WitnessNoTitle ==
    /\ Saved
    /\ cifinish_orig = JournalV2
    /\ readers = <<>>

\* C9 (as claimed): load_cifinish raises InvalidCIFinishError for every file
\* with the 'CIFINISH' magic and a version other than 1, 2 or 3, whatever its
\* count field is (0 included), and returns no map.
C9_UnknownVersion ==
    /\ cf_pc = "loaded"
    /\ SubSeq(cf_file, 1, 8) = MAGIC_CIFINISH
    /\ FromLE(SubSeq(cf_file, 9, 12)) \notin {1, 2, 3}
C9_UnknownVersionRaises ==
    C9_UnknownVersion => (~cf_out.ok /\ cf_out.err = "InvalidCIFinishError")

\* the subdirectories of the id0 directory named by 32 hexadecimal digits
C10_Hex32(name) == Len(name) = 32 /\ \A i \in 1..32 : name[i] \in HexDigits
C10_HexDirs == {e \in id0_entries : e.is_dir /\ C10_Hex32(e.name)}

\* nothing on the SD has been created or modified and nothing was run
C10_SdUntouched ==
    /\ [dirs |-> sd_dirs, files |-> sd_files] \in SdBefore
    /\ cif_disk = cifinish_orig
    /\ invocations = <<>>
    /\ title_db = {}
    /\ ~hb_3dsx
    /\ ~tempdir.exists

\* start() has been left (an exception of prepare_titles is raised before start())
C10_StartLeft == pc = "done" \/ (pc = "raised" /\ exc \notin PerTitleErrors)
\* start() returned at its first check: the save3ds_fuse binary was not found
C10_FuseNotFound == pc = "done" /\ result = Result("None", FALSE) /\ cif_w = 0

\* C10 (as claimed, for a start() that found the save3ds_fuse binary): when the
\* id0 directory holds zero or more than one subdirectory named by 32
\* hexadecimal digits, start() takes no id1 directory and goes no further: it
\* raises SDPathError, and nothing on the SD has been created or modified.
C10_RaisesSDPathError ==
    Cardinality(C10_HexDirs) # 1 =>
        /\ id1 = <<>>
        /\ C10_StartLeft =>
              (C10_FuseNotFound \/ (pc = "raised" /\ exc = "SDPathError" /\ C10_SdUntouched))

\* the files of this run under the title roots that the TMD, the contents and
\* the CMD are written to
C11_TitleFilesWritten ==
    {f \in DOMAIN sd_files : sd_files[f].gen = "new" /\ f.kind \in {"tmd", "app", "cmd"}}

\* C11: every TMD, content (.app, in a DLC directory or not) and CMD file the
\* installer writes goes through an AES-CTR cipher of keyslot 0x34 whose counter
\* comes from the logical path '/title/<tid_high>/<tid_low>/...' that names the
\* place of that very file below the id1 directory.
C11_LogicalPathIsPhysicalPath ==
    \A f \in C11_TitleFilesWritten :
        /\ sd_files[f].enc.keyslot = 52
        /\ sd_files[f].enc.enc_path = RelPath(f)

C11_Witness ==
    /\ pc = "done" /\ result.result = "True"
    /\ readers = <<TitleDlc, TitleApp>>
    /\ AppFile(TidDlc, 0, 17) \in C11_TitleFilesWritten
    /\ AppFile(TidApp, -1, 1) \in C11_TitleFilesWritten
    /\ CmdFile(TidDlc, 2) \in C11_TitleFilesWritten

\* C12 (as claimed): when a content of a DLC title is about to be written, the
\* directory content_root/<cindex div 256 as 8 hex> exists, whatever content
\* indices the container holds; the write never fails for want of it.
C12_DlcDirectoryCreated ==
    /\ (pc = "open_content" /\ is_dlc(cia)) =>
          DlcDir(cia.tid, cia.content_info[cidx].cindex \div 256) \in sd_dirs
    /\ ~(pc = "raised" /\ exc = "FileNotFoundError")

\* the reader whose Title Info Entry and journal entry stand for title ID t: the
\* last one of the batch with that title ID
C16_Reader(t) ==
    readers[CHOOSE i \in 1..Len(readers) :
                readers[i].tid = t /\ \A j \in (i + 1)..Len(readers) : readers[j].tid # t]
C16_HasIndex1(r) == \E i \in 1..Len(r.content_info) : r.content_info[i].cindex = 1
C16_IsDlc(r) == SubSeq(r.tid, 1, 4) = <<0, 4, 0, 140>>

\* C14: the save file of a title is left as it is when it exists and
\* overwrite_saves is false; a save file is created or rewritten only by the
\* install of a title whose save_size is not zero, and only when the file does
\* not exist or overwrite_saves is true.
C14_SaveKeptUnlessOverwrite ==
    [][\A t \in {paths[i].tid : i \in 1..Len(paths)} :
          LET f == SavFile(t)
          IN /\ (f \in DOMAIN sd_files /\ ~overwrite_saves)
                    => (f \in DOMAIN sd_files' /\ sd_files'[f] = sd_files[f])
             /\ (f \in DOMAIN sd_files' /\ (f \notin DOMAIN sd_files \/ sd_files'[f] # sd_files[f]))
                    => /\ pc = "save" /\ cia.tid = t /\ cia.save_size # 0
                       /\ overwrite_saves \/ f \notin DOMAIN sd_files]_vars

C14_Witness ==
    /\ pc = "done" /\ result.result = "True"
    /\ ~overwrite_saves /\ ~skip_contents
    /\ readers = <<TitleApp>>
    /\ sd_files[SavFile(TidApp)].gen = "old"
    /\ FileComplete(CmdFile(TidApp, 1), 1)

\* C16: every Title Info Entry built is 0x80 bytes; its manual flag (offset
\* 0x10) is 1 when the title is not DLC and has a content of index 1, else 0;
\* its save flag (offset 0x1C) is 1 when save_size is not zero, else 0; its CMD
\* content ID (offset 0x18) is 1 for a title that is not DLC and the number of
\* contents for a DLC title, and is the number in the name of the CMD file
\* written for the title.
C16_TitleInfoEntry ==
    \A t \in DOMAIN title_info_entries :
        LET e == title_info_entries[t]
            r == C16_Reader(t)
        IN /\ Len(e) = 128
           /\ FromLE(SubSeq(e, 17, 20)) = (IF ~C16_IsDlc(r) /\ C16_HasIndex1(r) THEN 1 ELSE 0)
           /\ FromLE(SubSeq(e, 29, 32)) = (IF r.save_size > 0 THEN 1 ELSE 0)
           /\ FromLE(SubSeq(e, 25, 28)) = (IF C16_IsDlc(r) THEN Len(r.content_info) ELSE 1)
           /\ ~skip_contents =>
                 \E f \in DOMAIN sd_files :
                     /\ f.tid = t /\ f.kind = "cmd" /\ sd_files[f].gen = "new"
                     /\ f.id = FromLE(SubSeq(e, 25, 28))

C16_Witness ==
    /\ DOMAIN title_info_entries = {TidApp, TidDlc}
    /\ readers = <<TitleApp, TitleDlc>>
    /\ ~skip_contents
    /\ title_info_entries[TidApp][125 - 44] = 255

C13_Highest(content_info) ==
    CHOOSE h \in {content_info[i].cindex : i \in 1..Len(content_info)} :
        \A i \in 1..Len(content_info) : content_info[i].cindex <= h
C13_CmdOfAnyOrder ==
    fn_pc = "cmd built" =>
        LET n == C13_Highest(fn_in) + 1
            cmd == fn_out
        IN /\ Len(cmd.ids_by_index) = n
           /\ Len(cmd.cmacs) = n
           /\ \A i \in 1..Len(fn_in) :
                  /\ cmd.ids_by_index[fn_in[i].cindex + 1] = ToLE(fn_in[i].id, 4)
                  /\ cmd.cmacs[fn_in[i].cindex + 1] = CmacOf(fn_in[i])
           /\ \A x \in 0..(n - 1) :
                  (\A i \in 1..Len(fn_in) : fn_in[i].cindex # x) =>
                      /\ cmd.ids_by_index[x + 1] = CMD_MISSING
                      /\ cmd.cmacs[x + 1] = CmacMissing
           /\ Len(cmd.installed_ids) = Len(fn_in)
           /\ \A i \in 1..Len(fn_in) :
                  \E k \in 1..Len(cmd.installed_ids) : cmd.installed_ids[k] = ToLE(fn_in[i].id, 4)
           /\ \A k \in 1..(Len(cmd.installed_ids) - 1) :
                  FromLE(cmd.installed_ids[k]) < FromLE(cmd.installed_ids[k + 1])
           /\ SubSeq(cmd.header, 5, 8) = ToLE(Len(cmd.ids_by_index), 4)
           /\ SubSeq(cmd.header, 9, 12) = ToLE(Len(cmd.installed_ids), 4)

\* C15 as stated: the save file is exactly save_size bytes long and decrypts,
\* under the SD keyslot and the IV of its path, to zero bytes over its whole
\* length, for every save_size > 0.
C15_AllZeroPlaintext ==
    fn_pc = "save written" =>
        /\ Len(fn_out) = fn_in.save_size
        /\ CtrCrypt(fn_in.keystream, fn_out) = Rep(0, Len(fn_out))

\* C15: the save file is max(0x20, save_size) bytes long; its first 0x20 bytes
\* decrypt to zero bytes, and every byte after them is stored as a zero byte,
\* which decrypts to the keystream of its position.
C15_ZeroHeadRawTail ==
    fn_pc = "save written" =>
        /\ Len(fn_out) = Max(32, fn_in.save_size)
        /\ SubSeq(CtrCrypt(fn_in.keystream, fn_out), 1, 32) = Rep(0, 32)
        /\ \A i \in 33..Len(fn_out) :
               /\ fn_out[i] = 0
               /\ CtrCrypt(fn_in.keystream, fn_out)[i] = fn_in.keystream[i]

C15_Witness ==
    /\ fn_pc = "save written"
    /\ fn_in.save_size = 48
    /\ Len(fn_out) = 48
    /\ \E i \in 33..48 : CtrCrypt(fn_in.keystream, fn_out)[i] # 0

\* the content indices the bitmap of the archive header marks active: bit
\* 0x80 of byte 0 is index 0, bit 0x01 of byte 0 is index 7
C19_Active(content_index) ==
    {i \in 0..(8 * Len(content_index) - 1) :
        LET mask == <<128, 64, 32, 16, 8, 4, 2, 1>>[(i % 8) + 1]
        IN (content_index[(i \div 8) + 1] \div mask) % 2 = 1}
C19_TmdIndices(chunk_records) == {chunk_records[i].cindex : i \in 1..Len(chunk_records)}

\* C19 as stated: opening a CIA fails with InvalidCIA whenever the set of
\* active indices of the bitmap differs from the set of indices of the TMD
\* chunk records, and after a successful open content_info holds exactly one
\* record per active index.
C19_FailsOnAnyDisagreement ==
    fn_pc = "cia opened" =>
        LET active == C19_Active(fn_in.content_index)
        IN /\ active # C19_TmdIndices(fn_in.chunk_records) =>
                  ~fn_out.ok /\ fn_out.err = "InvalidCIAError"
           /\ fn_out.ok =>
                  /\ \A i \in 1..Len(fn_out.content_info) : fn_out.content_info[i].cindex \in active
                  /\ \A x \in active :
                         Cardinality({i \in 1..Len(fn_out.content_info) :
                                         fn_out.content_info[i].cindex = x}) = 1

\* C19: opening a CIA fails, with InvalidCIA, exactly when some index the
\* bitmap marks active has no chunk record in the TMD; chunk records of
\* indices the bitmap leaves out are accepted.  After a successful open
\* content_info holds, in the order of the TMD, every chunk record of an active
\* index and no other: at least one per active index.
C19_FailsOnMissingChunkRecord ==
    fn_pc = "cia opened" =>
        LET active == C19_Active(fn_in.content_index)
            records == fn_in.chunk_records
        IN /\ fn_out.ok <=> active \subseteq C19_TmdIndices(records)
           /\ ~fn_out.ok => fn_out.err = "InvalidCIAError"
           /\ fn_out.ok =>
                  /\ fn_out.content_info = SelectSeq(records, LAMBDA r : r.cindex \in active)
                  /\ \A x \in active :
                         \E i \in 1..Len(fn_out.content_info) : fn_out.content_info[i].cindex = x

C19_Witness ==
    /\ fn_pc = "cia opened"
    /\ fn_out.ok
    /\ C19_Active(fn_in.content_index) = {0}
    /\ C19_TmdIndices(fn_in.chunk_records) = {0, 1, 8}
    /\ Len(fn_out.content_info) = 1

\* C17: for every byte string b that load accepts with hash verification,
\* bytes(load(b)) is the bytes of b that load consumed.
C17_BytesOfLoadIsInput ==
    fn_pc = "tmd serialized" =>
        /\ fn_out.result.ok
        /\ fn_out.result.bytes = SubSeq(fn_in.bytes, 1, fn_out.tmd.consumed)

\* C18 as stated: loading, with hash verification, a TMD in which one byte of
\* the hash of an Info Record is flipped, and nothing else, fails with
\* InvalidInfoRecord.
C18_FlipRaisesInvalidInfoRecord ==
    (fn_pc = "tmd loaded" /\ fn_in.made = "info hash flipped") =>
        ~fn_out.ok /\ fn_out.err = "InvalidInfoRecordError"

\* C18: such a load fails with InvalidHashError, raised for the hash the header
\* holds of the Info Record region; InvalidInfoRecord is what it fails with
\* when that hash of the header has been computed again over the changed
\* region.
C18_FlipRaisesInvalidHash ==
    fn_pc = "tmd loaded" =>
        /\ fn_in.made = "info hash flipped" =>
               ~fn_out.ok /\ fn_out.err = "InvalidHashError"
        /\ fn_in.made = "info hash flipped, header hash computed again" =>
               ~fn_out.ok /\ fn_out.err = "InvalidInfoRecordError"

C18_Witness ==
    /\ fn_pc = "tmd loaded"
    /\ fn_in.made = "info hash flipped"
    /\ fn_out.err = "InvalidHashError"
    /\ LET valid == TmdBinary(fn_in.v)
       IN /\ TmdLoad(valid, TRUE).ok
          /\ Len(valid) = Len(fn_in.bytes)
          /\ \E k \in (TmdInfoHashAt(fn_in.v) + 1)..(TmdInfoHashAt(fn_in.v) + 32) :
                 /\ fn_in.bytes[k] # valid[k]
                 /\ fn_in.bytes = [valid EXCEPT ![k] = fn_in.bytes[k]]

\* C21 (as claimed): a movable.sed of a length other than 0x10, 0x120 and 0x140
\* fails with BadMovableSedError, through setup_sd_key and through
\* setup_sd_key_from_file, and the engine (KeyY and normal key of 0x34, 0x30,
\* 0x3A, id0) is left as it was
C21_OtherLengthsFail ==
    [][(fn_in'.op = "setup_sd_key" /\ calls' = calls + 1 /\ fn_in'.len \notin {16, 288, 320})
        => (fn_out' = "BadMovableSedError" /\ engines' = engines)]_vars


\* C22 (as claimed): after any sequence of keyslot writes (set_keyslot,
\* set_normal_key, bootROM ingestion or copy from the cache, SD key load,
\* ticket load), every keyslot that has both a KeyX and a KeyY holds the normal
\* key the scrambler gives for them, the DSi scrambler below slot 4
C22_NormalKeyIsScrambled ==
    fn_pc = "keys" =>
        \A k \in (DOMAIN engines[1].key_x) \cap (DOMAIN engines[1].key_y) :
            /\ k \in DOMAIN engines[1].key_normal
            /\ engines[1].key_normal[k] = keygen(engines[1], k)


\* C24 (as claimed): every engine whose b9_keys_set is true holds the whole
\* bootROM-derived set of the first successful ingestion (KeyX 0x2C..0x3E,
\* KeyY 0x04 and 0x06..0x0B, normal key 0x0D, OTP key and IV, the extdata
\* blobs), also when the engines are constructed by threads at the same time;
\* a thread whose ingestion failed leaves its engine's b9_keys_set false
C24_FlagMeansCompleteSet ==
    fn_pc = "boot9" =>
        \A t \in Boot9Threads :
            /\ engines[t].b9_keys_set =>
                  LET c == B9Complete(engines[t].dev)
                  IN  /\ \A k \in B9KeyXSlots : k \in DOMAIN engines[t].key_x /\ engines[t].key_x[k] = c.key_x[k]
                      /\ \A k \in B9KeyYSlots : k \in DOMAIN engines[t].key_y /\ engines[t].key_y[k] = c.key_y[k]
                      /\ 13 \in DOMAIN engines[t].key_normal /\ engines[t].key_normal[13] = c.key_normal[13]
                      /\ engines[t].otp_key = c.otp_key /\ engines[t].otp_iv = c.otp_iv
                      /\ engines[t].b9_extdata_otp = c.b9_extdata_otp
                      /\ engines[t].b9_extdata_keygen = c.b9_extdata_keygen
            /\ threads[t].pc = "failed" => ~engines[t].b9_keys_set


\* C25 (as claimed): after NCCHReader has opened a container, for every
\* crypto_method (0x00, 0x01, 0x0A, 0x0B) with and without a seed, keyslot 0x2C
\* holds the normal key made from the KeyY of the header itself
C25_OriginalKeyInNcchSlot ==
    (fn_pc = "ncch open" /\ handle.err = "") =>
        /\ KeyslotNCCH \in DOMAIN engines[1].key_normal
        /\ engines[1].key_normal[KeyslotNCCH]
              = keygen_manual(engines[1].key_x[KeyslotNCCH], PySlice(fn_in.header, 0, 16))


\* the decrypted image of the content: each byte from the whole decryption of
\* the one region that holds it, from the file itself where no region does, and
\* the two flag bytes of the header as a decrypted container has them
NcchImage(lo, hi) ==
    LET dec(s) == IF handle.all_sections[s].offset < hi /\ lo < handle.all_sections[s].end
                  THEN SectionData(handle, engines[1], NcchFile, s, 0, handle.all_sections[s].size)
                  ELSE <<>>
        whole == <<dec(1), dec(2), dec(3), dec(4), dec(5), dec(6)>>
    IN  [i \in 1..(hi - lo) |->
            LET p == lo + i - 1
                holds == {s \in {ExtendedHeader, ExeFS, RomFS, NcchHeader, Logo, Plain} :
                             handle.all_sections[s].offset <= p /\ p < handle.all_sections[s].end}
            IN  IF p = 395 THEN 0
                ELSE IF p = 399 THEN 4
                ELSE IF holds = {} THEN FileByte(NcchFile, p)
                ELSE LET s == CHOOSE x \in holds : TRUE IN whole[s][p - handle.all_sections[s].offset + 1]]

\* C26: a read of the FullDecrypted view at any offset, with any size, returns
\* min(size, content_size - offset) bytes (none beyond the end), and byte i is
\* the byte offset + i of the decrypted image
C26_FullDecryptedIsImage ==
    (fn_pc = "ncch read" /\ fn_out.section = FullDecrypted) =>
        /\ Len(fn_out.data) = Max(0, Min(fn_out.size, handle.content_size - fn_out.offset))
        /\ fn_out.data = NcchImage(fn_out.offset, fn_out.offset + Len(fn_out.data))

\* a read that starts inside the header, runs over every region and the unit
\* that belongs to none, and ends at the end of a seeded 9.6 container
C26_Witness ==
    /\ fn_pc = "ncch read" /\ fn_out.section = FullDecrypted
    /\ fn_out.offset = 1 /\ fn_out.size = 7000
    /\ Len(fn_out.data) = handle.content_size - 1
    /\ handle.flags.crypto_method = 11 /\ handle.flags.uses_seed
    /\ Len(ToRead(handle, 0, handle.content_size \div 512)) >= 5



\* C28 (as stated): a read through a section file returns at most the bytes
\* between the position and the end of the section (none at or beyond the end),
\* and only bytes of that section
SectionWhole(section) == get_data(handle, engines[1], NcchFile, section, 0, handle.all_sections[section].size)
C28_ReadsStayInRegion ==
    (fn_pc = "section" /\ fn_out # <<>> /\ fn_out.op = "read" /\ fn_out.err = "")
        => LET size == handle.all_sections[files[1].path].size
           IN  /\ Len(fn_out.data) <= Max(0, size - fn_out.pos)
               /\ fn_out.data = PySlice(SectionWhole(files[1].path), Min(fn_out.pos, size),
                                        Min(fn_out.pos, size) + Len(fn_out.data))


\* the section file the last read went through, its reader and its region
ReadFile == files[fn_out.file]
ReadRegion == handle[ReadFile.reader].sections[ReadFile.path]
CiaRead_Done == fn_pc = "cia" /\ fn_out # <<>> /\ fn_out.op = "read" /\ fn_out.err = ""

\* the region decrypted from its start: AES-CBC with the titlekey of the
\* reader and the IV of the region over the bytes of the file
RegionPlain(n, region) ==
    CbcDecrypt(engines[handle[n].crypto].key_normal[KeyslotDecryptedTitlekey], region.iv,
               CiaFileRead(CiaFileOf(n), region.offset, region.size))

\* C27: a read of n bytes at any position of a section file of an encrypted CIA
\* content returns the bytes [position, position + n) of the region decrypted
\* sequentially from its start with the IV of the region (clipped to the region),
\* and leaves the position after the bytes returned
C27_RandomAccessIsSequential ==
    (CiaRead_Done /\ ReadRegion.iv # NoIv)
        => \E whole \in {RegionPlain(ReadFile.reader, ReadRegion)} :
              /\ fn_out.data = PySlice(whole, fn_out.pos,
                                       IF fn_out.size = -1 THEN Len(whole) ELSE fn_out.pos + fn_out.size)
              /\ ReadFile._seek = fn_out.pos + Len(fn_out.data)

\* a read that starts in the middle of a block after the first and ends in the
\* middle of the next, short of the end of the region
C27_Witness ==
    /\ CiaRead_Done /\ ReadRegion.iv # NoIv
    /\ fn_out.pos > 16 /\ fn_out.pos % 16 # 0
    /\ Len(fn_out.data) = 16 /\ (fn_out.pos + Len(fn_out.data)) % 16 # 0
    /\ fn_out.pos + Len(fn_out.data) < ReadRegion.size


\* C29 (as stated): every region a CIAReader registered starts at a multiple of
\* 64, and no two of its regions overlap
Overlap(a, b) == a.size > 0 /\ b.size > 0 /\ a.offset < b.offset + b.size /\ b.offset < a.offset + a.size
C29_RegionsAlignedAndApart ==
    fn_pc = "cia" =>
        \A n \in 1..Len(handle) :
            handle[n].err = "" =>
                LET regions == handle[n].regions
                IN  /\ \A i \in 1..Len(regions) : regions[i].offset % ALIGN_SIZE = 0
                    /\ \A i, j \in 1..Len(regions) : i # j => ~Overlap(regions[i], regions[j])

\* the normal key of the NCCH keyslot for each KeyY of CiaKeys
CiaNcchNormal ==
    <<keygen_manual(ReaderEngine(0).key_x[KeyslotNCCH], CiaKeys[1]),
      keygen_manual(ReaderEngine(0).key_x[KeyslotNCCH], CiaKeys[2]),
      keygen_manual(ReaderEngine(0).key_x[KeyslotNCCH], CiaKeys[3]),
      keygen_manual(ReaderEngine(0).key_x[KeyslotNCCH], CiaKeys[4])>>
RecordOf(n, cindex) ==
    CHOOSE record \in {CiaFileOf(n).chunk_records[i] : i \in 1..Len(CiaFileOf(n).chunk_records)} :
        record.cindex = cindex

\* C30: whatever readers were opened after it and whatever reads were made, the
\* engine of every open reader holds in keyslot 0x40 the titlekey of the
\* reader's own ticket, the engine of each of its NCCH contents holds in
\* keyslot 0x2C the KeyY of that content's header and its normal key, and a read
\* of the first 0x200 bytes of a content returns the bytes of that header
C30_ReadersKeepTheirKeys ==
    fn_pc = "cia" =>
        /\ \A n \in 1..Len(handle) :
              handle[n].err = "" =>
                  /\ engines[handle[n].crypto].key_normal[KeyslotDecryptedTitlekey] = CiaFileOf(n).titlekey
                  /\ \A k \in 1..Len(handle[n].contents) :
                        LET c == handle[n].contents[k]
                            key_y == RecordOf(n, c.cindex).key_y
                        IN  /\ c.key_y = key_y
                            /\ engines[c.crypto].key_y[KeyslotNCCH] = key_y
                            /\ \E i \in 1..4 : /\ CiaKeys[i] = key_y
                                               /\ engines[c.crypto].key_normal[KeyslotNCCH] = CiaNcchNormal[i]
        /\ (fn_out # <<>> /\ fn_out.op = "read" /\ fn_out.err = "" /\ fn_out.pos < 512)
              => PySlice(fn_out.data, 0, 512 - fn_out.pos)
                     = PySlice(CiaNcchHeader(RecordOf(ReadFile.reader, ReadFile.path).key_y),
                               fn_out.pos, fn_out.pos + Len(fn_out.data))

\* a reader with another titlekey and other KeyYs was opened after the first,
\* and the header of a content of the first was read after that
C30_Witness ==
    /\ fn_pc = "cia" /\ Len(handle) = 2 /\ handle[1].err = "" /\ handle[2].err = ""
    /\ CiaFileOf(1).titlekey # CiaFileOf(2).titlekey
    /\ RecordOf(1, 0).key_y # RecordOf(2, 0).key_y
    /\ fn_out # <<>> /\ fn_out.op = "read" /\ fn_out.err = "" /\ ReadFile.reader = 1
    /\ fn_out.pos < 512 /\ Len(fn_out.data) >= 16


\* C23 (as stated): the reads of two views of one file object are serialized:
\* between the seek a read makes on the file object and its read no other view
\* seeks or reads it, and every read returns the bytes at the view's own position
C23_ViewsAreSerialized ==
    fn_pc = "views" =>
        /\ \A t \in ViewThreads :
              threads[t].pc = "read" => handle.pos = threads[t]._seek + threads[t]._offset
        /\ fn_out # <<>> =>
              /\ fn_out.from = fn_out.at
              /\ fn_out.data = FileRead([head |-> <<>>, len |-> 32], fn_out.at, Len(fn_out.data))

====
